---- MODULE Spec2Model ----
(***************************************************************************)
(* A model of the comment search and relevance-ranking engine of           *)
(* YouTubeCommentMiner: the CommentSearcher class of                        *)
(* src/comment_search/comment_search.py.                                   *)
(*                                                                         *)
(* A Python str is a sequence of one-character strings; a comment (a JSON  *)
(* object) is a function from the keys it carries to their values, so that *)
(* dict.get(key, default) can tell an absent key from a present one.       *)
(***************************************************************************)
EXTENDS Integers, Sequences, FiniteSets, TLC

VARIABLES
    \* the arguments of a call of a matcher or of the scorer
    arg_text, keywords, case_sensitive, arg_comment,
    \* the method called last ("none" before any call) and what it returned
    call, ret,
    \* the files of the comments directory, in the order glob lists them
    corpus,
    \* the other arguments of search_comments and extract_user_comments
    search_mode, min_likes, max_results, sort_by, username,
    \* the method called ("none" before the call) and where it stands
    method, pc,
    \* the number of files the running loop has taken from json_files
    file_idx,
    \* the local variable results (search_comments) and user_stats
    \* (get_all_users) of the running method
    results, user_stats,
    \* how many diagnostic lines were printed: "Error loading" and "Invalid
    \* regex pattern"
    printed,
    \* what the method returned, once pc = "returned"
    returned,
    \* whether the comments directory exists
    dir_exists,
    \* whether main made the call, and the exit status of the process (-1
    \* while it runs)
    cli, exit_code,
    \* the names extract_user_comments prints under "Did you mean one of
    \* these?"
    suggested,
    \* what build_user_database of user_profiler.py returned
    user_db,
    \* the second run of search_comments on the same CommentSearcher: whether
    \* it was made and what it returned
    rerun,
    \* the option --no-color, the module's global USE_COLOR, and the comment
    \* texts display_results has printed
    no_color, USE_COLOR, listing,
    \* the argument of show_most_active_users and what it returned
    limit, top_users,
    \* get_plain_matches in a case-sensitive mode, statement by statement:
    \* the strings to find (the keywords, or the joined phrase), the number
    \* of them done with, and the locals start (here loop_start) and matches of the loop
    needles, kw_idx, loop_start, matches,
    \* the search GUI: the flag self.running, the worker threads started,
    \* each with the place it has reached, and the button presses rejected
    running, threads, rejected

matchVars == <<arg_text, keywords, case_sensitive, arg_comment, call, ret>>

runVars == <<corpus, search_mode, min_likes, max_results, sort_by, username,
             method, pc, file_idx, results, user_stats, printed, returned,
             dir_exists, cli, exit_code, suggested, user_db,
             rerun, no_color, USE_COLOR, listing, limit, top_users,
             needles, kw_idx, loop_start, matches, running, threads, rejected>>

\* the variables of the display, of the second run and of the ranking
showVars == <<rerun, no_color, USE_COLOR, listing, limit, top_users>>

\* the variables of the find loop
loopVars == <<needles, kw_idx, loop_start, matches>>

\* the variables of the search GUI
guiVars == <<running, threads, rejected>>

vars == <<arg_text, keywords, case_sensitive, arg_comment, call, ret,
          corpus, search_mode, min_likes, max_results, sort_by, username,
          method, pc, file_idx, results, user_stats, printed, returned,
          dir_exists, cli, exit_code, suggested, user_db,
          rerun, no_color, USE_COLOR, listing, limit, top_users,
          needles, kw_idx, loop_start, matches, running, threads, rejected>>

(***************************************************************************)
(* Bounds of the model.                                                    *)
(***************************************************************************)
\* longest text (before padding) given to the matchers and the scorer
MaxTextLen == 3
\* longest keyword list given to the matchers and the scorer
MaxKeywords == 2
\* most files in the comments directory
MaxFiles == 2

(***************************************************************************)
(* Python str and list operations used by the code.                        *)
(***************************************************************************)
\* one character of str.lower()
LowerChar(c) ==
    IF c = "A" THEN "a" ELSE IF c = "B" THEN "b" ELSE IF c = "O" THEN "o" ELSE c

\* str.lower()
RECURSIVE lower(_)
lower(s) ==
    IF s = <<>> THEN <<>> ELSE <<LowerChar(Head(s))>> \o lower(Tail(s))

\* [k.lower() for k in keywords]
RECURSIVE lower_all(_)
lower_all(kws) ==
    IF kws = <<>> THEN <<>> ELSE <<lower(Head(kws))>> \o lower_all(Tail(kws))

\* s[a:b] for 0 <= a, with b clipped to len(s) as Python slicing does
Slice(s, a, b) ==
    LET e == IF b > Len(s) THEN Len(s) ELSE b
    IN IF a >= e THEN <<>> ELSE SubSeq(s, a + 1, e)

\* sub occurs in s at index start (counted from 0)
occurs_at(s, sub, start) ==
    /\ start + Len(sub) <= Len(s)
    /\ \A j \in 1..Len(sub) : s[start + j] = sub[j]

\* str.find(sub, start): the lowest index >= start where sub occurs, else -1
str_find(s, sub, start) ==
    LET found == {i \in start..(Len(s) - Len(sub)) : occurs_at(s, sub, i)}
    IN IF found = {} THEN -1
       ELSE CHOOSE i \in found : \A j \in found : i <= j

\* `sub in s`
str_in(sub, s) == str_find(s, sub, 0) # -1

\* str.count(sub): non-overlapping occurrences, scanning from the left;
\* the empty string is counted once between every two characters and at
\* both ends
RECURSIVE count_from(_, _, _)
count_from(s, sub, start) ==
    LET pos == str_find(s, sub, start)
    IN IF pos = -1 THEN 0 ELSE 1 + count_from(s, sub, pos + Len(sub))

\* str_count as it would be if every occurrence were counted, overlapping
\* ones included
str_count_overlapping(s, sub) ==
    Cardinality({i \in 0..(Len(s) - Len(sub)) : occurs_at(s, sub, i)})

str_count(s, sub) ==
    IF sub = <<>> THEN Len(s) + 1 ELSE count_from(s, sub, 0)

\* ' '.join(keywords)
RECURSIVE join(_)
join(kws) ==
    IF kws = <<>> THEN <<>>
    ELSE IF Len(kws) = 1 THEN kws[1]
    ELSE kws[1] \o <<" ">> \o join(Tail(kws))

\* dict.get(key, default)
Get(d, key, default) == IF key \in DOMAIN d THEN d[key] ELSE default

\* min(a, b)
Min(a, b) == IF a < b THEN a ELSE b

(***************************************************************************)
(* The fragment of Python's re the model covers: a pattern is a sequence   *)
(* of literal characters and of groups "(" ... ")".  re.compile raises      *)
(* re.error when the parentheses do not balance; a pattern that compiles   *)
(* matches exactly its literal characters in order.                        *)
(***************************************************************************)
RECURSIVE paren_depth(_, _)
\* the nesting depth after reading pattern p, or -1 once a ")" closes nothing
paren_depth(p, d) ==
    IF p = <<>> THEN d
    ELSE IF Head(p) = "(" THEN paren_depth(Tail(p), d + 1)
    ELSE IF Head(p) = ")" THEN (IF d = 0 THEN -1 ELSE paren_depth(Tail(p), d - 1))
    ELSE paren_depth(Tail(p), d)

\* re.compile(pattern) does not raise re.error
re_valid(p) == paren_depth(p, 0) = 0

\* the literal text a compiled pattern of the fragment matches
re_literal(p) == SelectSeq(p, LAMBDA c : c \notin {"(", ")"})

\* bool(re.search(pattern, text, flags)) for a pattern that compiles;
\* ignorecase is the re.IGNORECASE flag
re_search(p, text, ignorecase) ==
    IF ignorecase THEN str_in(lower(re_literal(p)), lower(text))
    ELSE str_in(re_literal(p), text)

(***************************************************************************)
(* The Match Engine.                                                       *)
(***************************************************************************)
\* any(keyword in text for keyword in keywords)
search_simple(text, kws, cs) ==
    LET t == IF cs THEN text ELSE lower(text)
        k == IF cs THEN kws ELSE lower_all(kws)
    IN \E i \in 1..Len(k) : str_in(k[i], t)

\* all(keyword in text for keyword in keywords)
search_all_keywords(text, kws, cs) ==
    LET t == IF cs THEN text ELSE lower(text)
        k == IF cs THEN kws ELSE lower_all(kws)
    IN \A i \in 1..Len(k) : str_in(k[i], t)

\* phrase in text
search_phrase(text, phrase, cs) ==
    LET t == IF cs THEN text ELSE lower(text)
        p == IF cs THEN phrase ELSE lower(phrase)
    IN str_in(p, t)

\* the value search_regex returns: re.search is always given re.IGNORECASE,
\* and re.error is caught and answered with False
search_regex(text, pattern) ==
    IF re_valid(pattern) THEN re_search(pattern, text, TRUE) ELSE FALSE

\* the number of "Invalid regex pattern" lines one call of search_regex prints
search_regex_prints(text, pattern) ==
    IF re_valid(pattern) THEN 0 ELSE 1

(***************************************************************************)
(* The Relevance Scorer.                                                   *)
(***************************************************************************)
FirstChars == 50
KeywordWeight == 10
PositionBonus == 5
LikeCap == 50
UploaderBonus == 20
VerifiedBonus == 10

\* for keyword in keywords_lower: score += text_lower.count(keyword) * 10
RECURSIVE keyword_score(_, _)
keyword_score(t, kws) ==
    IF kws = <<>> THEN 0
    ELSE str_count(t, Head(kws)) * KeywordWeight + keyword_score(t, Tail(kws))

\* any(kw in text_lower[:50] for kw in keywords_lower)
position_bonus(t, kws) ==
    IF \E i \in 1..Len(kws) : str_in(kws[i], Slice(t, 0, FirstChars))
    THEN PositionBonus ELSE 0

\* like_bonus as it would be if the cap were subtracted instead of applied
like_bonus_offset(comment) == Get(comment, "like_count", 0) - LikeCap

\* min(comment.get('like_count', 0), 50)
like_bonus(comment) == Min(Get(comment, "like_count", 0), LikeCap)

\* the uploader and verified bonuses; an absent flag is falsy
badge_bonus(comment) ==
    (IF Get(comment, "author_is_uploader", FALSE) THEN UploaderBonus ELSE 0)
    + (IF Get(comment, "author_is_verified", FALSE) THEN VerifiedBonus ELSE 0)

\* comment['text'] raises KeyError when the comment has no text
score_raises(comment) == "text" \notin DOMAIN comment

\* the value calculate_relevance_score returns for a comment with a text
calculate_relevance_score(comment, kws, cs) ==
    LET t == IF cs THEN comment["text"] ELSE lower(comment["text"])
        k == IF cs THEN kws ELSE lower_all(kws)
    IN keyword_score(t, k) + position_bonus(t, k)
       + like_bonus(comment) + badge_bonus(comment)

(***************************************************************************)
(* The Corpus Loader.  A file of the directory is its name and what        *)
(* json.load makes of it: nothing (open or json.load raises), a list (the  *)
(* JSON root is an array) or a dict (the root is an object).               *)
(***************************************************************************)
\* Python's None, where a str is expected
None == <<"None">>

InfoJsonSuffix == <<".", "i", "n", "f", "o", ".", "j", "s", "o", "n">>

\* filename.endswith(suffix)
endswith(s, suffix) ==
    /\ Len(suffix) <= Len(s)
    /\ Slice(s, Len(s) - Len(suffix), Len(s)) = suffix

\* the outcome of load_comments_from_file: the pair (comments, filename) it
\* returns and the number of "Error loading" lines it prints.  data.get on
\* a list raises AttributeError, which the except clause catches like a
\* failed open or a failed json.load.
load_comments_from_file(file) ==
    IF file.json = "invalid" \/ file.json = "array"
    THEN [comments |-> <<>>, filename |-> None, prints |-> 1]
    ELSE IF "comments" \notin DOMAIN file.data
    THEN [comments |-> <<>>, filename |-> file.name, prints |-> 0]
    ELSE IF ~file.data.comments.is_list
    THEN [comments |-> <<>>, filename |-> file.name, prints |-> 0]
    ELSE [comments |-> file.data.comments.items, filename |-> file.name,
          prints |-> 0]

\* filename.endswith raises AttributeError when filename is None
video_id_raises(filename) == filename = None

\* the value extract_video_id_from_filename returns for a str
extract_video_id_from_filename(filename) ==
    IF endswith(filename, InfoJsonSuffix)
    THEN Slice(filename, 0, Len(filename) - Len(InfoJsonSuffix))
    ELSE <<"u", "n", "k", "n", "o", "w", "n">>

(***************************************************************************)
(* get_plain_matches: the matched portions of a text, as a set.            *)
(***************************************************************************)
\* the start indices pattern.finditer visits for a literal: non-overlapping,
\* from the left; an empty match is followed by a step of one character
RECURSIVE finditer_from(_, _, _)
finditer_from(s, lit, start) ==
    LET pos == str_find(s, lit, start)
    IN IF pos = -1 THEN <<>>
       ELSE <<pos>> \o finditer_from(s, lit, IF lit = <<>> THEN pos + 1
                                              ELSE pos + Len(lit))

\* finditer_groups as it would be if each match gave the pattern as typed
finditer_groups_as_typed(txt, lit, ignorecase) ==
    LET at == IF ignorecase THEN finditer_from(lower(txt), lower(lit), 0)
              ELSE finditer_from(txt, lit, 0)
    IN [i \in 1..Len(at) |-> lit]

\* [m.group(0) for m in pattern.finditer(text)] for the compiled literal
\* lit; with re.IGNORECASE the comparison folds case and group(0) is the
\* text as it stands
finditer_groups(txt, lit, ignorecase) ==
    LET at == IF ignorecase THEN finditer_from(lower(txt), lower(lit), 0)
              ELSE finditer_from(txt, lit, 0)
    IN [i \in 1..Len(at) |-> Slice(txt, at[i], at[i] + Len(lit))]

\* the while loop around text.find(keyword, start) with start = pos + 1
RECURSIVE find_loop(_, _, _)
find_loop(txt, kw, start) ==
    LET pos == str_find(txt, kw, start)
    IN IF pos = -1 THEN <<>>
       ELSE <<Slice(txt, pos, pos + Len(kw))>> \o find_loop(txt, kw, pos + 1)

\* next_start as it would be if the search went on after the match
next_start_after_match(pos, kw) == pos + Len(kw)

\* `start = pos + 1`: the next search begins one character after the place
\* of the match, whatever the length of the keyword
next_start(pos, kw) == pos + 1

\* the elements of a list, as set(matches) collects them
Range(seq) == {seq[i] : i \in 1..Len(seq)}

\* the matches one keyword adds in any/all mode
keyword_matches(txt, kw, cs) ==
    IF ~cs THEN finditer_groups(txt, kw, TRUE) ELSE find_loop(txt, kw, 0)

\* keywords[0] raises IndexError on an empty list
first_keyword_raises(kws) == kws = <<>>

\* set(matches)
get_plain_matches(txt, kws, mode, cs) ==
    IF mode = "regex"
    THEN IF re_valid(kws[1])
         THEN Range(finditer_groups(txt, re_literal(kws[1]), ~cs))
         ELSE {}
    ELSE IF mode = "phrase"
    THEN Range(keyword_matches(txt, join(kws), cs))
    ELSE UNION {Range(keyword_matches(txt, kws[i], cs)) : i \in 1..Len(kws)}

\* list(S) for a set S: its elements, each once, in an order the
\* implementation chooses
list_of_set(S) == {f \in [1..Cardinality(S) -> S] : Range(f) = S}

(***************************************************************************)
(* highlight_matches.  The escape character '\033' is the one-character    *)
(* string written "ESC" here.                                              *)
(***************************************************************************)
ESC == "ESC"

\* RED = '\033[91m'
RED == <<ESC, "[", "9", "1", "m">>

\* RESET = '\033[0m'
RESET == <<ESC, "[", "0", "m">>

RECURSIVE wrap_from(_, _, _, _)
\* s from index pos on, with RED and RESET around the n characters at each
\* of the indices at, which are in increasing order and do not overlap
wrap_from(s, at, n, pos) ==
    IF at = <<>> THEN Slice(s, pos, Len(s))
    ELSE Slice(s, pos, Head(at)) \o RED \o Slice(s, Head(at), Head(at) + n) \o RESET
         \o wrap_from(s, Tail(at), n, Head(at) + n)

\* pattern.sub(lambda m: RED + m.group(0) + RESET, s) for the compiled
\* literal lit, and s.replace(lit, RED + lit + RESET) when the case counts:
\* both take the non-overlapping occurrences from the left
highlight_literal(s, lit, ignorecase) ==
    LET at == IF ignorecase THEN finditer_from(lower(s), lower(lit), 0)
              ELSE finditer_from(s, lit, 0)
    IN wrap_from(s, at, Len(lit), 0)

RECURSIVE highlight_keywords(_, _, _)
\* `for keyword in keywords`: each keyword is highlighted in the text as the
\* keywords before it have left it
highlight_keywords(highlighted_text, kws, cs) ==
    IF kws = <<>> THEN highlighted_text
    ELSE highlight_keywords(highlight_literal(highlighted_text, Head(kws), ~cs),
                            Tail(kws), cs)

\* the value highlight_matches returns; in regex mode an invalid pattern
\* raises re.error, which leaves the text as it is
highlight_matches(text, kws, mode, cs, use_color) ==
    IF ~use_color THEN text
    ELSE IF mode = "regex"
    THEN IF re_valid(kws[1])
         THEN highlight_literal(text, re_literal(kws[1]), ~cs)
         ELSE text
    ELSE IF mode = "phrase"
    THEN highlight_literal(text, join(kws), ~cs)
    ELSE highlight_keywords(text, kws, cs)

\* the "Comment:" lines display_results prints for the results: the text
\* of each, highlighted `if highlight and keywords`
display_results(rs, highlight, kws, mode, cs, use_color_global) ==
    [i \in 1..Len(rs) |->
        IF highlight /\ kws # <<>>
        THEN highlight_matches(Get(rs[i].comment, "text", <<>>), kws, mode, cs,
                               use_color_global)
        ELSE Get(rs[i].comment, "text", <<>>)]

(***************************************************************************)
(* list.sort(key=..., reverse=True): a stable sort into non-increasing key *)
(* order.  The list is given as records [key, val].                        *)
(***************************************************************************)
RECURSIVE insert_desc_before_equals(_, _)
\* insert_desc as it would be if x went before the elements of equal key
insert_desc_before_equals(sorted, x) ==
    IF sorted = <<>> THEN <<x>>
    ELSE IF Head(sorted).key > x.key
    THEN <<Head(sorted)>> \o insert_desc_before_equals(Tail(sorted), x)
    ELSE <<x>> \o sorted

RECURSIVE insert_desc(_, _)
\* x placed after every element whose key is at least its own
insert_desc(sorted, x) ==
    IF sorted = <<>> THEN <<x>>
    ELSE IF Head(sorted).key >= x.key
    THEN <<Head(sorted)>> \o insert_desc(Tail(sorted), x)
    ELSE <<x>> \o sorted

RECURSIVE sort_keyed(_, _)
sort_keyed(keyed, sorted) ==
    IF keyed = <<>> THEN sorted
    ELSE sort_keyed(Tail(keyed), insert_desc(sorted, Head(keyed)))

\* results.sort(key=lambda x: x["relevance_score"], reverse=True)
sort_by_relevance(rs) ==
    LET keyed == [i \in 1..Len(rs) |-> [key |-> rs[i].relevance_score, val |-> rs[i]]]
        sorted == sort_keyed(keyed, <<>>)
    IN [i \in 1..Len(rs) |-> sorted[i].val]

\* results.sort(key=lambda x: x["comment"].get("like_count", 0), reverse=True)
sort_by_likes(rs) ==
    LET keyed == [i \in 1..Len(rs) |->
                    [key |-> Get(rs[i].comment, "like_count", 0), val |-> rs[i]]]
        sorted == sort_keyed(keyed, <<>>)
    IN [i \in 1..Len(rs) |-> sorted[i].val]

\* sort_by_date as it would be if a comment without timestamp counted as the
\* newest
sort_by_date_absent_newest(rs) ==
    LET keyed == [i \in 1..Len(rs) |->
                    [key |-> Get(rs[i].comment, "timestamp", 1000), val |-> rs[i]]]
        sorted == sort_keyed(keyed, <<>>)
    IN [i \in 1..Len(rs) |-> sorted[i].val]

\* results.sort(key=lambda x: x["comment"].get("timestamp", 0), reverse=True)
sort_by_date(rs) ==
    LET keyed == [i \in 1..Len(rs) |->
                    [key |-> Get(rs[i].comment, "timestamp", 0), val |-> rs[i]]]
        sorted == sort_keyed(keyed, <<>>)
    IN [i \in 1..Len(rs) |-> sorted[i].val]

(***************************************************************************)
(* search_comments: the body of the loop over the comments of one file.    *)
(* A query q is the arguments keywords, search_mode, case_sensitive and    *)
(* min_likes; acc is the list results so far, the "Invalid regex pattern"  *)
(* lines printed, and whether an exception left the loop.                  *)
(***************************************************************************)
\* the mode dispatch: the value of match
match_comment(txt, q) ==
    IF q.search_mode = "any"
    THEN search_simple(txt, q.keywords, q.case_sensitive)
    ELSE IF q.search_mode = "all"
    THEN search_all_keywords(txt, q.keywords, q.case_sensitive)
    ELSE IF q.search_mode = "phrase"
    THEN search_phrase(txt, join(q.keywords), q.case_sensitive)
    ELSE IF q.search_mode = "regex"
    THEN search_regex(txt, q.keywords[1])
    ELSE FALSE

\* the lines the mode dispatch prints
match_prints(txt, q) ==
    IF q.search_mode = "regex" THEN search_regex_prints(txt, q.keywords[1]) ELSE 0

\* keywords[0] in regex mode raises IndexError when there is no keyword
match_raises(q) == q.search_mode = "regex" /\ first_keyword_raises(q.keywords)

\* search_result as it would be if matching had lower-cased the record's text
\* in place
search_result_lowered(c, txt, filename, video_id, q) ==
    [comment |-> [k \in DOMAIN c |-> IF k = "text" THEN lower(c[k]) ELSE c[k]],
     source_file |-> filename,
     video_id |-> video_id,
     relevance_score |-> calculate_relevance_score(c, q.keywords, q.case_sensitive),
     matched_text |-> get_plain_matches(txt, q.keywords, q.search_mode,
                                        q.case_sensitive)]

\* the wrapper search_comments appends for a matching comment
search_result(c, txt, filename, video_id, q) ==
    [comment |-> c,
     source_file |-> filename,
     video_id |-> video_id,
     relevance_score |-> calculate_relevance_score(c, q.keywords, q.case_sensitive),
     matched_text |-> get_plain_matches(txt, q.keywords, q.search_mode,
                                        q.case_sensitive)]

\* search_comment as it would be without the like filter
search_comment_unfiltered(c, filename, video_id, q, acc) ==
    LET txt == Get(c, "text", <<>>)
    IN IF acc.raised THEN acc
       ELSE IF txt = <<>> THEN acc
       ELSE IF match_raises(q) THEN [acc EXCEPT !.raised = TRUE]
       ELSE IF match_comment(txt, q)
       THEN [acc EXCEPT
               !.results = Append(@, search_result(c, txt, filename, video_id, q)),
               !.prints = @ + match_prints(txt, q)]
       ELSE [acc EXCEPT !.prints = @ + match_prints(txt, q)]

\* one iteration of `for comment in comments`
search_comment(c, filename, video_id, q, acc) ==
    LET txt == Get(c, "text", <<>>)
    IN IF acc.raised THEN acc
       ELSE IF txt = <<>> THEN acc
       ELSE IF Get(c, "like_count", 0) < q.min_likes THEN acc
       ELSE IF match_raises(q) THEN [acc EXCEPT !.raised = TRUE]
       ELSE IF match_comment(txt, q)
       THEN [acc EXCEPT
               !.results = Append(@, search_result(c, txt, filename, video_id, q)),
               !.prints = @ + match_prints(txt, q)]
       ELSE [acc EXCEPT !.prints = @ + match_prints(txt, q)]

RECURSIVE search_file_comments(_, _, _, _, _)
\* `for comment in comments` over the comments of one file
search_file_comments(comments, filename, video_id, q, acc) ==
    IF comments = <<>> THEN acc
    ELSE search_file_comments(Tail(comments), filename, video_id, q,
             search_comment(Head(comments), filename, video_id, q, acc))

\* max_results is None (NoCap) or an int n, written <<n>>
NoCap == <<>>

\* `if max_results:`: None and 0 are falsy
cap_truthy(cap) == cap # NoCap /\ cap[1] # 0

\* the sort and the cap that end search_comments
search_finish(rs, sortby, cap) ==
    LET sorted == IF sortby = "relevance" THEN sort_by_relevance(rs)
                  ELSE IF sortby = "likes" THEN sort_by_likes(rs)
                  ELSE IF sortby = "date" THEN sort_by_date(rs)
                  ELSE rs
    IN IF cap_truthy(cap) THEN Slice(sorted, 0, cap[1]) ELSE sorted

\* one iteration of `for json_file in json_files`: acc is the loop's state
\* after the files before this one
search_file(file, q, acc) ==
    LET ld == load_comments_from_file(file)
    IN IF acc.raised THEN acc
       ELSE IF video_id_raises(ld.filename)
       THEN [acc EXCEPT !.raised = TRUE]
       ELSE search_file_comments(ld.comments, ld.filename,
                extract_video_id_from_filename(ld.filename), q, acc)

RECURSIVE search_files(_, _, _)
\* `for json_file in json_files` over the files of the directory
search_files(files, q, acc) ==
    IF files = <<>> THEN acc
    ELSE search_files(Tail(files), q, search_file(Head(files), q, acc))

\* fresh_results as it would be if the list outlived the call
fresh_results_kept(previous) == previous

\* `results = []`: every call starts from a new list, whatever list an
\* earlier call has built
fresh_results(previous) == <<>>

\* a whole call of search_comments on a CommentSearcher that has answered a
\* call before with the list previous
search_comments(files, q, sortby, cap, previous) ==
    LET acc == search_files(files, q, [results |-> fresh_results(previous),
                                       prints |-> 0, raised |-> FALSE])
    IN [raised |-> acc.raised,
        returned |-> IF acc.raised THEN <<>>
                     ELSE search_finish(acc.results, sortby, cap)]

(***************************************************************************)
(* get_all_users.  The dict user_stats is the sequence of its entries in   *)
(* insertion order, each with its key in the field author.                 *)
(***************************************************************************)
Unknown == <<"U", "n", "k", "n", "o", "w", "n">>
NotAvailable == <<"N", "/", "A">>

\* stats_index as it would be if the names were compared ignoring case
stats_index_ignoring_case(stats, author) ==
    IF \E i \in 1..Len(stats) : lower(stats[i].author) = lower(author)
    THEN CHOOSE i \in 1..Len(stats) : lower(stats[i].author) = lower(author)
    ELSE 0

\* the index of the entry of author in user_stats, 0 when there is none
stats_index(stats, author) ==
    IF \E i \in 1..Len(stats) : stats[i].author = author
    THEN CHOOSE i \in 1..Len(stats) : stats[i].author = author
    ELSE 0

\* `username in user_stats`
has_user(stats, author) == stats_index(stats, author) # 0

\* the value the defaultdict makes for a new author
new_user(author) ==
    [author |-> author, count |-> 0, total_likes |-> 0, comments |-> <<>>,
     author_id |-> None, is_verified |-> FALSE, is_uploader |-> FALSE]

\* the entry appended to stats["comments"]
comment_data(c, filename, video_id) ==
    [text |-> Get(c, "text", <<>>),
     video_id |-> video_id,
     source_file |-> filename,
     like_count |-> Get(c, "like_count", 0),
     timestamp |-> Get(c, "timestamp", 0),
     time_text |-> Get(c, "_time_text", Unknown),
     full_comment |-> c]

\* count_comment as it would be if only comments with a text were counted
count_comment_with_text(e, c, filename, video_id) ==
    [e EXCEPT
       !.count = @ + (IF "text" \in DOMAIN c THEN 1 ELSE 0),
       !.total_likes = @ + Get(c, "like_count", 0),
       !.author_id = Get(c, "author_id", NotAvailable),
       !.is_verified = IF Get(c, "author_is_verified", FALSE) THEN TRUE ELSE @,
       !.is_uploader = IF Get(c, "author_is_uploader", FALSE) THEN TRUE ELSE @,
       !.comments = Append(@, comment_data(c, filename, video_id))]

\* the changes one comment makes to its author's entry
count_comment(e, c, filename, video_id) ==
    [e EXCEPT
       !.count = @ + 1,
       !.total_likes = @ + Get(c, "like_count", 0),
       !.author_id = Get(c, "author_id", NotAvailable),
       !.is_verified = IF Get(c, "author_is_verified", FALSE) THEN TRUE ELSE @,
       !.is_uploader = IF Get(c, "author_is_uploader", FALSE) THEN TRUE ELSE @,
       !.comments = Append(@, comment_data(c, filename, video_id))]

\* one iteration of `for comment in comments` in get_all_users
users_comment(stats, c, filename, video_id) ==
    LET author == Get(c, "author", Unknown)
        i == stats_index(stats, author)
    IN IF i = 0
       THEN Append(stats, count_comment(new_user(author), c, filename, video_id))
       ELSE [stats EXCEPT ![i] = count_comment(@, c, filename, video_id)]

RECURSIVE users_file_comments(_, _, _, _)
users_file_comments(stats, comments, filename, video_id) ==
    IF comments = <<>> THEN stats
    ELSE users_file_comments(
             users_comment(stats, Head(comments), filename, video_id),
             Tail(comments), filename, video_id)

(***************************************************************************)
(* show_most_active_users, after get_all_users has returned user_stats.    *)
(***************************************************************************)
\* sorted_users as it would be if the authors were ranked by their likes
sorted_users_by_likes(stats) ==
    LET keyed == [i \in 1..Len(stats) |-> [key |-> stats[i].total_likes, val |-> stats[i]]]
        sorted == sort_keyed(keyed, <<>>)
    IN [i \in 1..Len(stats) |-> sorted[i].val]

\* sorted(user_stats.items(), key=lambda x: x[1]['count'], reverse=True)
sorted_users(stats) ==
    LET keyed == [i \in 1..Len(stats) |-> [key |-> stats[i].count, val |-> stats[i]]]
        sorted == sort_keyed(keyed, <<>>)
    IN [i \in 1..Len(stats) |-> sorted[i].val]

\* `if not user_stats: return []`, then the entries of sorted_users[:limit]
most_active_users(stats, lim) ==
    IF stats = <<>> THEN <<>> ELSE Slice(sorted_users(stats), 0, lim)

(***************************************************************************)
(* extract_user_comments, after get_all_users has returned.                *)
(***************************************************************************)
\* the most names printed under "Did you mean one of these?"
MaxSuggestions == 5

\* similar_names as it would be if the existing name were looked for in the
\* name asked for
similar_names_reversed(stats, name) ==
    LET keys == [i \in 1..Len(stats) |-> stats[i].author]
    IN SelectSeq(keys, LAMBDA u : str_in(lower(u), lower(name)))

\* [u for u in user_stats.keys() if username.lower() in u.lower()]
similar_names(stats, name) ==
    LET keys == [i \in 1..Len(stats) |-> stats[i].author]
    IN SelectSeq(keys, LAMBDA u : str_in(lower(name), lower(u)))

\* the names printed: similar[:5]
suggestions(stats, name) == Slice(similar_names(stats, name), 0, MaxSuggestions)

\* `if search_keywords:`; None is modelled as the empty list, which is falsy
\* as well and is never indexed or joined
truthy(kws) == kws # <<>>

\* the keyword filter over all_comments: the comments kept and the lines the
\* matchers print
RECURSIVE filter_user_comments(_, _, _)
filter_user_comments(cds, q, acc) ==
    IF cds = <<>> THEN acc
    ELSE LET cd == Head(cds)
         IN IF cd.like_count < q.min_likes
            THEN filter_user_comments(Tail(cds), q, acc)
            ELSE filter_user_comments(Tail(cds), q,
                   [kept |-> IF match_comment(cd.text, q)
                             THEN Append(acc.kept, cd) ELSE acc.kept,
                    prints |-> acc.prints + match_prints(cd.text, q)])

\* all_comments after the filters
user_comments_filtered(cds, q) ==
    IF truthy(q.keywords)
    THEN filter_user_comments(cds, q, [kept |-> <<>>, prints |-> 0])
    ELSE [kept |-> IF q.min_likes > 0
                   THEN SelectSeq(cds, LAMBDA cd : cd.like_count >= q.min_likes)
                   ELSE cds,
          prints |-> 0]

\* the wrapper extract_user_comments makes of one comment_data
user_result(cd, q) ==
    [comment |-> cd.full_comment,
     source_file |-> cd.source_file,
     video_id |-> cd.video_id,
     relevance_score |->
         IF truthy(q.keywords)
         THEN calculate_relevance_score(cd.full_comment, q.keywords, q.case_sensitive)
         ELSE 0,
     matched_text |->
         IF truthy(q.keywords)
         THEN get_plain_matches(cd.text, q.keywords, q.search_mode, q.case_sensitive)
         ELSE {}]

\* calculate_relevance_score raises KeyError for some comment kept
user_results_raise(cds, q) ==
    /\ truthy(q.keywords)
    /\ \E i \in 1..Len(cds) : score_raises(cds[i].full_comment)

\* the sorted list extract_user_comments returns
user_results(cds, q) ==
    LET rs == [i \in 1..Len(cds) |-> user_result(cds[i], q)]
    IN IF truthy(q.keywords) THEN sort_by_relevance(rs) ELSE sort_by_likes(rs)

(***************************************************************************)
(* user_profiler.py: load_comments_from_directory and build_user_database. *)
(* The dict user_db is the sequence of its entries in insertion order.     *)
(***************************************************************************)
JsonSuffix == <<".", "j", "s", "o", "n">>

\* json_file.stem of a file *.json: the name without its last suffix
stem(name) == Slice(name, 0, Len(name) - Len(JsonSuffix))

\* json_file.stem.split('_')[0] if '_' in json_file.stem else json_file.stem
stem_video_id(name) ==
    LET pos == str_find(stem(name), <<"_">>, 0)
    IN IF pos = -1 THEN stem(name) ELSE Slice(stem(name), 0, pos)

\* the comment after comment['_source_file'] = ... and comment['_video_id'] = ...
tagged(c, name) ==
    [k \in DOMAIN c \cup {"_source_file", "_video_id"} |->
        IF k = "_source_file" THEN name
        ELSE IF k = "_video_id" THEN stem_video_id(name)
        ELSE c[k]]

\* what one file adds to all_data: the comments of a JSON array; on a file
\* that does not load, and on a JSON object (whose iteration yields its keys,
\* on which the item assignment raises TypeError), the except clause prints
\* an error and the loop goes on
profiler_file_comments(file) ==
    IF file.json = "array"
    THEN [i \in 1..Len(file.data) |-> tagged(file.data[i], file.name)]
    ELSE <<>>

RECURSIVE load_comments_from_directory(_)
\* all_data after `for json_file in json_files`
load_comments_from_directory(files) ==
    IF files = <<>> THEN <<>>
    ELSE profiler_file_comments(Head(files)) \o load_comments_from_directory(Tail(files))

\* the value the defaultdict of build_user_database makes for a new author
new_profile(author) ==
    [author |-> author, comments |-> <<>>, video_ids |-> {}, timestamps |-> <<>>,
     total_likes |-> 0, author_id |-> None, author_url |-> None,
     is_verified |-> FALSE, is_uploader |-> FALSE]

\* `not user_db[author]['author_id']`: None and '' are falsy
no_author_id(e) == e.author_id = None \/ e.author_id = <<>>

\* the changes one comment makes to its author's entry: the identity and the
\* flags are taken from the comment while the entry has no author_id
profile_comment(e, c) ==
    [e EXCEPT
       !.comments = Append(@, c),
       !.video_ids = @ \cup {Get(c, "_video_id", <<"u", "n", "k", "n", "o", "w", "n">>)},
       !.timestamps = Append(@, Get(c, "timestamp", 0)),
       !.total_likes = @ + Get(c, "like_count", 0),
       !.author_id = IF no_author_id(e) THEN Get(c, "author_id", None) ELSE @,
       !.author_url = IF no_author_id(e) THEN Get(c, "author_url", None) ELSE @,
       !.is_verified = IF no_author_id(e) THEN Get(c, "author_is_verified", FALSE)
                       ELSE @,
       !.is_uploader = IF no_author_id(e) THEN Get(c, "author_is_uploader", FALSE)
                       ELSE @]

\* one iteration of `for comment in all_comments`
profile_step(db, c) ==
    LET author == Get(c, "author", Unknown)
        i == IF \E n \in 1..Len(db) : db[n].author = author
             THEN CHOOSE n \in 1..Len(db) : db[n].author = author
             ELSE 0
    IN IF i = 0 THEN Append(db, profile_comment(new_profile(author), c))
       ELSE [db EXCEPT ![i] = profile_comment(@, c)]

RECURSIVE build_user_database_from(_, _)
build_user_database_from(db, all_comments) ==
    IF all_comments = <<>> THEN db
    ELSE build_user_database_from(profile_step(db, Head(all_comments)),
                                  Tail(all_comments))

build_user_database(all_comments) == build_user_database_from(<<>>, all_comments)

(***************************************************************************)
(* The comment collectors and the searcher of src/comment_search.py: the   *)
(* name of the file download_comments keeps for a video, and the video id  *)
(* the searcher takes from a file name.                                    *)
(***************************************************************************)
CommentsJsonSuffix ==
    <<".", "c", "o", "m", "m", "e", "n", "t", "s", ".", "j", "s", "o", "n">>

\* src/comment_collector.py: base = f"{video_id}_{timestamp}" and
\* comments_json = base.with_suffix(".comments.json"); the base name holds
\* no dot, so the suffix is appended
legacy_comments_json(video_id, timestamp) ==
    video_id \o <<"_">> \o timestamp \o CommentsJsonSuffix

\* src/comment_collector/comment_collector.py:
\* comments_json = f"{video_id}.comments.json"
packaged_comments_json(video_id) == video_id \o CommentsJsonSuffix

\* the file download_comments keeps: both collectors delete the info.json
comments_json(collector, video_id, timestamp) ==
    IF collector = "legacy" THEN legacy_comments_json(video_id, timestamp)
    ELSE packaged_comments_json(video_id)

\* src/comment_search.py:
\* filename.split('_')[0] if '_' in filename else 'unknown'
legacy_video_id(filename) ==
    IF str_find(filename, <<"_">>, 0) = -1
    THEN <<"u", "n", "k", "n", "o", "w", "n">>
    ELSE Slice(filename, 0, str_find(filename, <<"_">>, 0))

(***************************************************************************)
(* The inputs of the matchers and of the scorer.                           *)
(***************************************************************************)
\* most presses of a run button in one execution of the GUI
MaxClicks == 3

\* every sequence over S of length at most n
SeqsUpTo(S, n) == UNION {[1..m -> S] : m \in 0..n}

\* n copies of character c
Repeat(c, n) == [i \in 1..n |-> c]

\* the characters of a text
TextChars == {"a", "A", " "}

\* the texts given to the matchers
Texts == SeqsUpTo(TextChars, MaxTextLen)

\* the scorer is also given a text after 49 characters of filler, so that a
\* keyword can lie inside, across and beyond the first 50 characters
PadLens == {0, FirstChars - 1}

\* the keywords of a query: the empty keyword, one letter in either case,
\* and a doubled letter (which can overlap itself in a text)
KeywordPool == {<<>>, <<"a">>, <<"A">>, <<"a", "a">>}

KeywordLists == SeqsUpTo(KeywordPool, MaxKeywords)

\* what a comment carries besides its text: like_count and the badge flags,
\* each of which yt-dlp may leave out
MetaPool ==
    { <<>>,
      [like_count |-> 7],
      [like_count |-> 60, author_is_uploader |-> FALSE, author_is_verified |-> TRUE],
      [like_count |-> 50, author_is_uploader |-> TRUE, author_is_verified |-> TRUE] }

\* the comment with the given text and the other fields of meta
WithText(meta, t) == [k \in DOMAIN meta \cup {"text"} |->
                        IF k = "text" THEN t ELSE meta[k]]

(***************************************************************************)
(* The comments directory.                                                 *)
(***************************************************************************)
Bob == <<"B", "o", "b">>
Al == <<"A", "l">>

\* Comments as yt-dlp writes them; any field may be left out.
Comment1 == [text |-> <<"a", " ", "b">>, like_count |-> 3, author |-> Bob,
             author_id |-> <<"U", "1">>, timestamp |-> 100]
Comment2 == [text |-> <<"A">>, like_count |-> 7, author |-> Bob,
             author_is_verified |-> TRUE]
Comment3 == [text |-> <<"b", "a">>, like_count |-> 60, author |-> Al,
             author_is_uploader |-> TRUE, timestamp |-> 200]
Comment4 == [like_count |-> 12, author |-> Bob]
Comment5 == [text |-> <<"b", "b">>]
Comment6 == [text |-> <<>>, like_count |-> 20, author |-> Al]

\* a comment of one more author, whose name holds a "B"
Crowd(n) == [text |-> <<"x">>, author |-> <<"B", n>>]

\* the name of the n-th file: a video id and the suffix glob selects
FileName(id) == <<"v", id>> \o InfoJsonSuffix

FilePool ==
    { \* a file open or json.load fails on
      [name |-> FileName("1"), json |-> "invalid", data |-> <<>>],
      \* a JSON array of comments
      [name |-> FileName("2"), json |-> "array", data |-> <<Comment1, Comment2>>],
      \* JSON objects with a list under "comments"
      [name |-> FileName("3"), json |-> "object",
       data |-> [comments |-> [is_list |-> TRUE, items |-> <<Comment1, Comment2>>]]],
      [name |-> FileName("4"), json |-> "object",
       data |-> [comments |-> [is_list |-> TRUE, items |-> <<Comment3, Comment5>>]]],
      [name |-> FileName("5"), json |-> "object",
       data |-> [comments |-> [is_list |-> TRUE,
                               items |-> <<Comment4, Comment6, Comment3>>]]],
      \* a JSON object without "comments", and one whose "comments" is null
      [name |-> FileName("6"), json |-> "object", data |-> [title |-> "t"]],
      [name |-> FileName("7"), json |-> "object",
       data |-> [comments |-> [is_list |-> FALSE, items |-> <<>>]]],
      \* a JSON object with the comments of six authors
      [name |-> FileName("8"), json |-> "object",
       data |-> [comments |-> [is_list |-> TRUE,
                               items |-> <<Crowd("1"), Crowd("2"), Crowd("3"),
                                           Crowd("4"), Crowd("5"), Crowd("6")>>]]] }

\* the directory holds at most MaxFiles files, each name once
Corpora ==
    {c \in SeqsUpTo(FilePool, MaxFiles) :
        \A i, j \in 1..Len(c) : i # j => c[i].name # c[j].name}

\* the keyword lists of a query: none, one keyword, two keywords, a pattern
\* re.compile rejects, a pattern with a group, and the empty keyword
QueryPool ==
    { <<>>,
      << <<"a">> >>,
      << <<"a">>, <<"b">> >>,
      << <<"(">> >>,
      << <<"(", "b", ")">> >>,
      << <<>> >> }

Modes == {"any", "all", "phrase", "regex"}
MinLikesPool == {0, 10}
SortPool == {"relevance", "likes", "date"}
\* max_results: no cap, and the caps --max-results takes (any int)
CapPool == {NoCap, <<0>>, <<1>>, <<2>>}
\* the names asked for: two authors, a name in another case, a part of
\* several names, and a name that contains an author's name
UserPool == {Bob, Al, <<"b", "o", "b">>, <<"b">>, <<"b", "o", "b", "b", "y">>}

\* keywords to highlight: in the text in either case, one within another,
\* and the last character of RED and of RESET
HighlightKeywordPool == {<<"a">>, <<"A">>, <<"a", "a">>, <<"m">>}
HighlightKeywordLists == SeqsUpTo(HighlightKeywordPool, MaxKeywords)

\* video ids: YouTube's alphabet has letters, digits, "-" and "_"
VideoIds == {<<"a", "b", "1">>, <<"a", "-", "b">>, <<"a", "_", "b">>, <<"_", "a", "b">>}

\* values of datetime.now().strftime("%Y%m%d_%H%M%S")
Timestamps ==
    {<<"2", "0", "2", "4", "0", "1", "3", "1", "_", "2", "3", "5", "9", "5", "9">>,
     <<"2", "0", "2", "5", "1", "2", "0", "1", "_", "0", "0", "0", "0", "0", "0">>}

\* the values of limit: none, fewer than the authors, and more
LimitPool == {0, 1, 2, 3, 9}

\* the arguments of the running method, as the loop bodies take them
Query ==
    [keywords |-> keywords, search_mode |-> search_mode,
     case_sensitive |-> case_sensitive, min_likes |-> min_likes]

(***************************************************************************)
(* Spec: one call of a method of CommentSearcher, of build_user_database   *)
(* or of main on a directory.  The loops over json_files advance one file  *)
(* per step.                                                               *)
(***************************************************************************)
\* no method has been called
RunIdle ==
    /\ search_mode = "any"
    /\ min_likes = 0
    /\ max_results = NoCap
    /\ sort_by = "relevance"
    /\ username = <<>>
    /\ method = "none"
    /\ pc = "idle"
    /\ file_idx = 0
    /\ results = <<>>
    /\ user_stats = <<>>
    /\ printed = [load |-> 0, regex |-> 0]
    /\ returned = <<>>
    /\ cli = FALSE
    /\ exit_code = -1
    /\ suggested = <<>>
    /\ user_db = <<>>
    /\ rerun = [done |-> FALSE, raised |-> FALSE, returned |-> <<>>]
    /\ no_color = FALSE
    /\ USE_COLOR = TRUE
    /\ listing = <<>>
    /\ limit = 0
    /\ top_users = <<>>
    /\ needles = <<>>
    /\ kw_idx = 0
    /\ loop_start = 0
    /\ matches = <<>>
    /\ running = FALSE
    /\ threads = <<>>
    /\ rejected = 0

\* the CommentSearcher is constructed on a path: an existing directory with
\* its files, or a path that does not exist, where glob finds nothing
Init ==
    /\ dir_exists \in BOOLEAN
    /\ corpus \in (IF dir_exists THEN Corpora ELSE {<<>>})
    /\ keywords = <<>>
    /\ case_sensitive = FALSE
    /\ arg_text = <<>>
    /\ arg_comment = <<>>
    /\ call = "none"
    /\ ret = FALSE
    /\ RunIdle

\* search_comments is called; when the directory does not exist or holds no
\* *.info.json file it returns [] at once
CallSearchComments ==
    /\ pc = "idle"
    /\ \E kws \in QueryPool, mode \in Modes, cs \in BOOLEAN, ml \in MinLikesPool :
         /\ keywords' = kws
         /\ search_mode' = mode
         /\ case_sensitive' = cs
         /\ min_likes' = ml
    /\ method' = "search_comments"
    /\ pc' = IF ~dir_exists \/ corpus = <<>> THEN "returned" ELSE "scan"
    /\ UNCHANGED <<corpus, max_results, sort_by, username, file_idx, results,
                   user_stats, printed, returned>>
    /\ UNCHANGED <<dir_exists, cli, exit_code, suggested, user_db>>
    /\ UNCHANGED showVars
    /\ UNCHANGED loopVars
    /\ UNCHANGED guiVars
    /\ UNCHANGED <<arg_text, arg_comment, call, ret>>

\* one iteration of `for json_file in json_files` in search_comments
SearchFile ==
    /\ method = "search_comments"
    /\ pc = "scan"
    /\ file_idx < Len(corpus)
    /\ LET ld == load_comments_from_file(corpus[file_idx + 1])
       IN IF video_id_raises(ld.filename)
          THEN /\ pc' = "raised"
               /\ printed' = [printed EXCEPT !.load = @ + ld.prints]
               /\ UNCHANGED <<file_idx, results>>
          ELSE LET acc == search_file_comments(ld.comments, ld.filename,
                              extract_video_id_from_filename(ld.filename), Query,
                              [results |-> results, prints |-> 0, raised |-> FALSE])
               IN /\ pc' = IF acc.raised THEN "raised" ELSE "scan"
                  /\ printed' = [printed EXCEPT !.load = @ + ld.prints,
                                                !.regex = @ + acc.prints]
                  /\ results' = acc.results
                  /\ file_idx' = file_idx + 1
    /\ UNCHANGED <<corpus, search_mode, min_likes, max_results, sort_by, username,
                   method, user_stats, returned>>
    /\ UNCHANGED <<dir_exists, cli, exit_code, suggested, user_db>>
    /\ UNCHANGED showVars
    /\ UNCHANGED loopVars
    /\ UNCHANGED guiVars
    /\ UNCHANGED matchVars

\* the loop is over: search_comments sorts, cuts and returns
SearchReturn ==
    /\ method = "search_comments"
    /\ pc = "scan"
    /\ file_idx = Len(corpus)
    /\ \E sb \in SortPool, cap \in CapPool :
         /\ sort_by' = sb
         /\ max_results' = cap
         /\ returned' = search_finish(results, sb, cap)
    /\ pc' = "returned"
    /\ UNCHANGED <<corpus, search_mode, min_likes, username, method, file_idx,
                   results, user_stats, printed>>
    /\ UNCHANGED <<dir_exists, cli, exit_code, suggested, user_db>>
    /\ UNCHANGED showVars
    /\ UNCHANGED loopVars
    /\ UNCHANGED guiVars
    /\ UNCHANGED matchVars

\* extract_user_comments is called and calls get_all_users, which returns {}
\* at once when the directory does not exist or holds no *.info.json file;
\* no name is in {} and none is similar
CallExtractUserComments ==
    /\ pc = "idle"
    /\ \E user \in UserPool, kws \in QueryPool, mode \in Modes, cs \in BOOLEAN,
          ml \in MinLikesPool :
         /\ username' = user
         /\ keywords' = kws
         /\ search_mode' = mode
         /\ case_sensitive' = cs
         /\ min_likes' = ml
    /\ method' = "extract_user_comments"
    /\ pc' = IF ~dir_exists \/ corpus = <<>> THEN "returned" ELSE "users"
    /\ UNCHANGED <<corpus, max_results, sort_by, file_idx, results, user_stats,
                   printed, returned>>
    /\ UNCHANGED <<dir_exists, cli, exit_code, suggested, user_db>>
    /\ UNCHANGED showVars
    /\ UNCHANGED loopVars
    /\ UNCHANGED guiVars
    /\ UNCHANGED <<arg_text, arg_comment, call, ret>>

\* one iteration of `for json_file in json_files` in get_all_users
UsersFile ==
    /\ method \in {"extract_user_comments", "show_most_active_users"}
    /\ pc = "users"
    /\ file_idx < Len(corpus)
    /\ LET ld == load_comments_from_file(corpus[file_idx + 1])
       IN /\ printed' = [printed EXCEPT !.load = @ + ld.prints]
          /\ IF video_id_raises(ld.filename)
             THEN /\ pc' = "raised"
                  /\ UNCHANGED <<file_idx, user_stats>>
             ELSE /\ pc' = "users"
                  /\ user_stats' = users_file_comments(user_stats, ld.comments,
                         ld.filename, extract_video_id_from_filename(ld.filename))
                  /\ file_idx' = file_idx + 1
    /\ UNCHANGED <<corpus, search_mode, min_likes, max_results, sort_by, username,
                   method, results, returned>>
    /\ UNCHANGED <<dir_exists, cli, exit_code, suggested, user_db>>
    /\ UNCHANGED showVars
    /\ UNCHANGED loopVars
    /\ UNCHANGED guiVars
    /\ UNCHANGED matchVars

\* get_all_users has returned: extract_user_comments filters the author's
\* comments, wraps and sorts them, and returns
ExtractReturn ==
    /\ method = "extract_user_comments"
    /\ pc = "users"
    /\ file_idx = Len(corpus)
    /\ IF ~has_user(user_stats, username)
       THEN /\ pc' = "returned"
            /\ returned' = <<>>
            /\ suggested' = suggestions(user_stats, username)
            /\ UNCHANGED printed
       ELSE LET all_comments == user_stats[stats_index(user_stats, username)].comments
                f == user_comments_filtered(all_comments, Query)
            IN /\ printed' = [printed EXCEPT !.regex = @ + f.prints]
               /\ UNCHANGED suggested
               /\ IF user_results_raise(f.kept, Query)
                  THEN /\ pc' = "raised"
                       /\ UNCHANGED returned
                  ELSE /\ pc' = "returned"
                       /\ returned' = user_results(f.kept, Query)
    /\ UNCHANGED <<corpus, search_mode, min_likes, max_results, sort_by, username,
                   method, file_idx, results, user_stats>>
    /\ UNCHANGED <<dir_exists, cli, exit_code, user_db>>
    /\ UNCHANGED showVars
    /\ UNCHANGED loopVars
    /\ UNCHANGED guiVars
    /\ UNCHANGED matchVars

\* show_most_active_users is called and calls get_all_users, which returns {}
\* at once when the directory does not exist or holds no *.info.json file
CallShowMostActiveUsers ==
    /\ pc = "idle"
    /\ limit' \in LimitPool
    /\ method' = "show_most_active_users"
    /\ pc' = IF ~dir_exists \/ corpus = <<>> THEN "returned" ELSE "users"
    /\ UNCHANGED <<corpus, search_mode, min_likes, max_results, sort_by, username,
                   file_idx, results, user_stats, printed, returned>>
    /\ UNCHANGED <<dir_exists, cli, exit_code, suggested, user_db>>
    /\ UNCHANGED <<rerun, no_color, USE_COLOR, listing, top_users>>
    /\ UNCHANGED loopVars
    /\ UNCHANGED guiVars
    /\ UNCHANGED matchVars

\* get_all_users has returned: show_most_active_users ranks the authors and
\* returns the first limit of them
MostActiveReturn ==
    /\ method = "show_most_active_users"
    /\ pc = "users"
    /\ file_idx = Len(corpus)
    /\ top_users' = most_active_users(user_stats, limit)
    /\ pc' = "returned"
    /\ UNCHANGED <<corpus, search_mode, min_likes, max_results, sort_by, username,
                   method, file_idx, results, user_stats, printed, returned>>
    /\ UNCHANGED <<dir_exists, cli, exit_code, suggested, user_db>>
    /\ UNCHANGED <<rerun, no_color, USE_COLOR, listing, limit>>
    /\ UNCHANGED loopVars
    /\ UNCHANGED guiVars
    /\ UNCHANGED matchVars

\* download_comments of one of the collectors keeps the comments of a video
\* in a file, and the searcher of src/comment_search.py, whose glob *.json
\* selects the file, takes the video id of its results from the file's name
DownloadAndDerive ==
    /\ pc = "idle"
    /\ call = "none"
    /\ \E collector \in {"legacy", "packaged"}, video_id \in VideoIds,
          timestamp \in Timestamps :
         LET filename == comments_json(collector, video_id, timestamp)
         IN ret' = [collector |-> collector, video_id |-> video_id,
                    filename |-> filename, derived |-> legacy_video_id(filename)]
    /\ call' = "download_comments"
    /\ method' = "download_comments"
    /\ pc' = "returned"
    /\ UNCHANGED <<arg_text, keywords, case_sensitive, arg_comment>>
    /\ UNCHANGED <<corpus, search_mode, min_likes, max_results, sort_by, username,
                   file_idx, results, user_stats, printed, returned>>
    /\ UNCHANGED <<dir_exists, cli, exit_code, suggested, user_db>>
    /\ UNCHANGED showVars
    /\ UNCHANGED loopVars
    /\ UNCHANGED guiVars

\* build_user_database of user_profiler.py is called on what
\* load_comments_from_directory makes of the directory
CallBuildUserDatabase ==
    /\ pc = "idle"
    /\ method' = "build_user_database"
    /\ user_db' = build_user_database(load_comments_from_directory(corpus))
    /\ pc' = "returned"
    /\ UNCHANGED <<corpus, search_mode, min_likes, max_results, sort_by, username,
                   file_idx, results, user_stats, printed, returned>>
    /\ UNCHANGED <<dir_exists, cli, exit_code, suggested>>
    /\ UNCHANGED showVars
    /\ UNCHANGED loopVars
    /\ UNCHANGED guiVars
    /\ UNCHANGED matchVars

\* main of comment_search.py without --most-active: with --user it calls
\* extract_user_comments; without, it exits with status 1 when there is no
\* keyword and calls search_comments otherwise.  An absent --user is the
\* empty name, which `if args.user:` takes for absent as well.  The command
\* line gives the directory, the keywords, --user and --mode; the options
\* --case-sensitive and --min-likes keep their defaults, and --no-color,
\* which only the display reads, is drawn where the results are shown.
Main ==
    /\ pc = "idle"
    /\ cli' = TRUE
    /\ \E user \in {<<>>} \cup UserPool, kws \in QueryPool, mode \in Modes :
         /\ username' = user
         /\ keywords' = kws
         /\ search_mode' = mode
         /\ case_sensitive' = FALSE
         /\ min_likes' = 0
         /\ IF user # <<>>
            THEN /\ method' = "extract_user_comments"
                 /\ pc' = IF ~dir_exists \/ corpus = <<>> THEN "returned" ELSE "users"
                 /\ UNCHANGED exit_code
            ELSE IF kws = <<>>
            THEN /\ method' = "none"
                 /\ pc' = "exited"
                 /\ exit_code' = 1
            ELSE /\ method' = "search_comments"
                 /\ pc' = IF ~dir_exists \/ corpus = <<>> THEN "returned" ELSE "scan"
                 /\ UNCHANGED exit_code
    /\ UNCHANGED <<corpus, max_results, sort_by, file_idx, results, user_stats,
                   printed, returned>>
    /\ UNCHANGED <<dir_exists, suggested, user_db>>
    /\ UNCHANGED showVars
    /\ UNCHANGED loopVars
    /\ UNCHANGED guiVars
    /\ UNCHANGED <<arg_text, arg_comment, call, ret>>

\* the method main called has returned: main shows the results with
\* display_results (--no-highlight is not given), saves them and returns,
\* and the process exits with status 0.  The command line gave --no-color
\* or not; `USE_COLOR = not args.no_color` stands in main without a global
\* statement, so it binds a name local to main, and the module's USE_COLOR,
\* which display_results reads, keeps its value.
MainReturn ==
    /\ cli
    /\ pc = "returned"
    /\ pc' = "exited"
    /\ exit_code' = 0
    /\ no_color' \in BOOLEAN
    /\ listing' = display_results(returned, TRUE, keywords, search_mode,
                                  case_sensitive, USE_COLOR)
    /\ UNCHANGED <<corpus, search_mode, min_likes, max_results, sort_by, username,
                   method, file_idx, results, user_stats, printed, returned>>
    /\ UNCHANGED <<dir_exists, cli, suggested, user_db>>
    /\ UNCHANGED <<rerun, USE_COLOR, limit, top_users>>
    /\ UNCHANGED loopVars
    /\ UNCHANGED guiVars
    /\ UNCHANGED matchVars

\* the method main called has raised: nothing in main catches the exception,
\* and the interpreter exits with status 1
MainUncaught ==
    /\ cli
    /\ pc = "raised"
    /\ pc' = "exited"
    /\ exit_code' = 1
    /\ UNCHANGED <<corpus, search_mode, min_likes, max_results, sort_by, username,
                   method, file_idx, results, user_stats, printed, returned>>
    /\ UNCHANGED <<dir_exists, cli, suggested, user_db>>
    /\ UNCHANGED showVars
    /\ UNCHANGED loopVars
    /\ UNCHANGED guiVars
    /\ UNCHANGED matchVars

Next ==
    \/ CallSearchComments
    \/ SearchFile
    \/ SearchReturn
    \/ CallExtractUserComments
    \/ UsersFile
    \/ ExtractReturn
    \/ CallShowMostActiveUsers
    \/ MostActiveReturn
    \/ CallBuildUserDatabase
    \/ DownloadAndDerive
    \/ Main
    \/ MainReturn
    \/ MainUncaught

Spec == Init /\ [][Next]_vars

(***************************************************************************)
(* SpecAgain: search_comments called twice on the same CommentSearcher     *)
(* with the same arguments.  Each call is one step.                        *)
(***************************************************************************)
\* search_comments is called and runs to its end; --case-sensitive,
\* --min-likes and --max-results keep their defaults
RunSearchComments ==
    /\ pc = "idle"
    /\ \E kws \in QueryPool, mode \in Modes, sb \in SortPool :
         LET q == [keywords |-> kws, search_mode |-> mode,
                   case_sensitive |-> FALSE, min_likes |-> 0]
             run == search_comments(corpus, q, sb, NoCap, <<>>)
         IN /\ keywords' = kws
            /\ search_mode' = mode
            /\ sort_by' = sb
            /\ pc' = IF run.raised THEN "raised" ELSE "returned"
            /\ returned' = run.returned
    /\ method' = "search_comments"
    /\ UNCHANGED <<corpus, min_likes, max_results, username, file_idx, results,
                   user_stats, printed>>
    /\ UNCHANGED <<dir_exists, cli, exit_code, suggested, user_db>>
    /\ UNCHANGED showVars
    /\ UNCHANGED loopVars
    /\ UNCHANGED guiVars
    /\ UNCHANGED <<arg_text, case_sensitive, arg_comment, call, ret>>

\* search_comments has returned the list returned and is called again on
\* the same directory with the same arguments
SearchAgain ==
    /\ method = "search_comments"
    /\ pc = "returned"
    /\ ~rerun.done
    /\ LET again == search_comments(corpus, Query, sort_by, max_results, returned)
       IN rerun' = [done |-> TRUE, raised |-> again.raised,
                    returned |-> again.returned]
    /\ UNCHANGED <<corpus, search_mode, min_likes, max_results, sort_by, username,
                   method, pc, file_idx, results, user_stats, printed, returned>>
    /\ UNCHANGED <<dir_exists, cli, exit_code, suggested, user_db>>
    /\ UNCHANGED <<no_color, USE_COLOR, listing, limit, top_users>>
    /\ UNCHANGED loopVars
    /\ UNCHANGED guiVars
    /\ UNCHANGED matchVars

NextAgain ==
    \/ RunSearchComments
    \/ SearchAgain

SpecAgain == Init /\ [][NextAgain]_vars

(***************************************************************************)
(* SpecLoop: get_plain_matches in phrase, any and all mode, statement by   *)
(* statement.  When the case counts, the strings to find are looked up     *)
(* with `while True: pos = text.find(keyword, start)`; a step is one       *)
(* iteration of that loop.  Once the method is entered the interpreter     *)
(* executes its next statement, hence the weak fairness of the iteration   *)
(* and of the return.  Here ret is a set, empty before the call.           *)
(***************************************************************************)
\* no execution leaves more matches than this in the list: a string is
\* found at most once at each index from 0 to len(text)
MaxMatches == MaxKeywords * (MaxTextLen + 1)

InitLoop ==
    /\ arg_text = <<>>
    /\ keywords = <<>>
    /\ case_sensitive = FALSE
    /\ arg_comment = <<>>
    /\ call = "none"
    /\ ret = {}
    /\ corpus = <<>>
    /\ dir_exists = TRUE
    /\ RunIdle

\* the window is built: no command runs and no worker has been started
InitGui ==
    /\ arg_text = <<>>
    /\ keywords = <<>>
    /\ case_sensitive = FALSE
    /\ arg_comment = <<>>
    /\ call = "none"
    /\ ret = FALSE
    /\ corpus = <<>>
    /\ dir_exists = TRUE
    /\ RunIdle

\* get_plain_matches is called on a text in phrase, any or all mode:
\* matches = [], and the strings to find are the phrase or the keywords.
\* When the case does not count they are found by finditer and the method
\* returns.
EnterGetPlainMatches ==
    /\ pc = "idle"
    /\ \E text \in Texts, kws \in KeywordLists, cs \in BOOLEAN,
          mode \in {"any", "all", "phrase"} :
         /\ arg_text' = text
         /\ keywords' = kws
         /\ case_sensitive' = cs
         /\ search_mode' = mode
         /\ needles' = IF mode = "phrase" THEN <<join(kws)>> ELSE kws
         /\ IF cs
            THEN /\ pc' = "find"
                 /\ UNCHANGED ret
            ELSE /\ pc' = "returned"
                 /\ ret' = get_plain_matches(text, kws, mode, FALSE)
    /\ method' = "get_plain_matches"
    /\ kw_idx' = 0
    /\ loop_start' = 0
    /\ matches' = <<>>
    /\ UNCHANGED <<arg_comment, call>>
    /\ UNCHANGED <<corpus, min_likes, max_results, sort_by, username, file_idx,
                   results, user_stats, printed, returned>>
    /\ UNCHANGED <<dir_exists, cli, exit_code, suggested, user_db>>
    /\ UNCHANGED showVars
    /\ UNCHANGED guiVars

\* one iteration of `while True`: pos = text.find(keyword, start); on -1
\* the loop breaks and the next keyword starts from 0, otherwise the match
\* is appended and start moves on
FindIteration ==
    /\ pc = "find"
    /\ kw_idx < Len(needles)
    /\ LET kw == needles[kw_idx + 1]
           pos == str_find(arg_text, kw, loop_start)
       IN IF pos = -1
          THEN /\ kw_idx' = kw_idx + 1
               /\ loop_start' = 0
               /\ UNCHANGED matches
          ELSE /\ Len(matches) < MaxMatches
               /\ matches' = Append(matches, Slice(arg_text, pos, pos + Len(kw)))
               /\ loop_start' = next_start(pos, kw)
               /\ UNCHANGED kw_idx
    /\ UNCHANGED <<needles, pc, ret>>
    /\ UNCHANGED <<arg_text, keywords, case_sensitive, arg_comment, call>>
    /\ UNCHANGED <<corpus, search_mode, min_likes, max_results, sort_by, username,
                   method, file_idx, results, user_stats, printed, returned>>
    /\ UNCHANGED <<dir_exists, cli, exit_code, suggested, user_db>>
    /\ UNCHANGED showVars
    /\ UNCHANGED guiVars

\* every string has been looked up: return list(set(matches)); ret is the
\* set, whose elements the list holds in an order of the implementation's
FindReturn ==
    /\ pc = "find"
    /\ kw_idx = Len(needles)
    /\ ret' = Range(matches)
    /\ pc' = "returned"
    /\ UNCHANGED <<needles, kw_idx, loop_start, matches>>
    /\ UNCHANGED <<arg_text, keywords, case_sensitive, arg_comment, call>>
    /\ UNCHANGED <<corpus, search_mode, min_likes, max_results, sort_by, username,
                   method, file_idx, results, user_stats, printed, returned>>
    /\ UNCHANGED <<dir_exists, cli, exit_code, suggested, user_db>>
    /\ UNCHANGED showVars
    /\ UNCHANGED guiVars

NextLoop ==
    \/ EnterGetPlainMatches
    \/ FindIteration
    \/ FindReturn

SpecLoop ==
    /\ InitLoop
    /\ [][NextLoop]_vars
    /\ WF_vars(FindIteration)
    /\ WF_vars(FindReturn)

(***************************************************************************)
(* SpecGui: the run buttons of comment_search_gui.py.  The handlers        *)
(* run_search, run_user_extraction and run_most_active run on Tk's main    *)
(* thread, one at a time and each to its end; the function execute of      *)
(* run_command runs on a worker thread of its own, whose statements        *)
(* interleave with the handlers and with the other workers.  A worker is   *)
(* "started" after thread.start(), "flagged" after self.running = True,    *)
(* "popen" while its command runs and "done" after self.running = False.   *)
(***************************************************************************)
Tabs == {"search", "user", "active"}

\* a run button is pressed with a form from which build_command builds a
\* command: the handler warns and returns when self.running is set, and
\* otherwise run_command starts a worker thread and returns
RunRequest ==
    /\ Len(threads) + rejected < MaxClicks
    /\ \E tab \in Tabs :
         IF running
         THEN /\ rejected' = rejected + 1
              /\ UNCHANGED threads
         ELSE /\ threads' = Append(threads, [tab |-> tab, at |-> "started"])
              /\ UNCHANGED rejected
    /\ UNCHANGED running
    /\ UNCHANGED <<corpus, search_mode, min_likes, max_results, sort_by, username,
                   method, pc, file_idx, results, user_stats, printed, returned>>
    /\ UNCHANGED <<dir_exists, cli, exit_code, suggested, user_db>>
    /\ UNCHANGED showVars
    /\ UNCHANGED loopVars
    /\ UNCHANGED matchVars

\* the first statement of execute: self.running = True
ThreadSetsRunning ==
    /\ \E i \in 1..Len(threads) :
         /\ threads[i].at = "started"
         /\ threads' = [threads EXCEPT ![i].at = "flagged"]
    /\ running' = TRUE
    /\ UNCHANGED rejected
    /\ UNCHANGED <<corpus, search_mode, min_likes, max_results, sort_by, username,
                   method, pc, file_idx, results, user_stats, printed, returned>>
    /\ UNCHANGED <<dir_exists, cli, exit_code, suggested, user_db>>
    /\ UNCHANGED showVars
    /\ UNCHANGED loopVars
    /\ UNCHANGED matchVars

\* subprocess.Popen(cmd, ...): the command runs
ThreadStartsCommand ==
    /\ \E i \in 1..Len(threads) :
         /\ threads[i].at = "flagged"
         /\ threads' = [threads EXCEPT ![i].at = "popen"]
    /\ UNCHANGED <<running, rejected>>
    /\ UNCHANGED <<corpus, search_mode, min_likes, max_results, sort_by, username,
                   method, pc, file_idx, results, user_stats, printed, returned>>
    /\ UNCHANGED <<dir_exists, cli, exit_code, suggested, user_db>>
    /\ UNCHANGED showVars
    /\ UNCHANGED loopVars
    /\ UNCHANGED matchVars

\* the command has ended and its output is read: self.running = False.
\* The except clause does the same when Popen or the reading raises.
ThreadFinishes ==
    /\ \E i \in 1..Len(threads) :
         /\ threads[i].at \in {"flagged", "popen"}
         /\ threads' = [threads EXCEPT ![i].at = "done"]
    /\ running' = FALSE
    /\ UNCHANGED rejected
    /\ UNCHANGED <<corpus, search_mode, min_likes, max_results, sort_by, username,
                   method, pc, file_idx, results, user_stats, printed, returned>>
    /\ UNCHANGED <<dir_exists, cli, exit_code, suggested, user_db>>
    /\ UNCHANGED showVars
    /\ UNCHANGED loopVars
    /\ UNCHANGED matchVars

NextGui ==
    \/ RunRequest
    \/ ThreadSetsRunning
    \/ ThreadStartsCommand
    \/ ThreadFinishes

SpecGui == InitGui /\ [][NextGui]_vars

(***************************************************************************)
(* SpecMatch: the matchers and the scorer as pure functions.  The inputs   *)
(* are drawn by InitMatch; each action is one call.                        *)
(***************************************************************************)
InitMatch ==
    /\ arg_text \in Texts
    /\ keywords \in KeywordLists
    /\ case_sensitive \in BOOLEAN
    /\ arg_comment = WithText(<<>>, arg_text)
    /\ call = "none"
    /\ ret = FALSE
    /\ corpus = <<>>
    /\ dir_exists = TRUE
    /\ RunIdle

CallSearchSimple ==
    /\ call = "none"
    /\ call' = "search_simple"
    /\ ret' = search_simple(arg_text, keywords, case_sensitive)
    /\ UNCHANGED <<arg_text, keywords, case_sensitive, arg_comment>>
    /\ UNCHANGED runVars

CallSearchAllKeywords ==
    /\ call = "none"
    /\ call' = "search_all_keywords"
    /\ ret' = search_all_keywords(arg_text, keywords, case_sensitive)
    /\ UNCHANGED <<arg_text, keywords, case_sensitive, arg_comment>>
    /\ UNCHANGED runVars

CallSearchPhrase ==
    /\ call = "none"
    /\ call' = "search_phrase"
    /\ ret' = search_phrase(arg_text, join(keywords), case_sensitive)
    /\ UNCHANGED <<arg_text, keywords, case_sensitive, arg_comment>>
    /\ UNCHANGED runVars

CallCalculateRelevanceScore ==
    /\ call = "none"
    /\ \E meta \in MetaPool, pad \in PadLens :
         /\ arg_comment' = WithText(meta, Repeat("x", pad) \o arg_text)
         /\ ret' = calculate_relevance_score(arg_comment', keywords, case_sensitive)
    /\ call' = "calculate_relevance_score"
    /\ UNCHANGED <<arg_text, keywords, case_sensitive>>
    /\ UNCHANGED runVars

\* get_plain_matches is called in one of the modes; in regex mode
\* keywords[0] raises IndexError when there is no keyword
CallGetPlainMatches ==
    /\ call = "none"
    /\ \E mode \in Modes :
         /\ search_mode' = mode
         /\ IF mode = "regex" /\ first_keyword_raises(keywords)
            THEN /\ call' = "IndexError"
                 /\ UNCHANGED ret
            ELSE /\ call' = "get_plain_matches"
                 /\ ret' \in list_of_set(get_plain_matches(arg_text, keywords, mode,
                                                          case_sensitive))
    /\ UNCHANGED <<arg_text, keywords, case_sensitive, arg_comment>>
    /\ UNCHANGED <<corpus, min_likes, max_results, sort_by, username, method, pc,
                   file_idx, results, user_stats, printed, returned>>
    /\ UNCHANGED <<dir_exists, cli, exit_code, suggested, user_db>>
    /\ UNCHANGED showVars
    /\ UNCHANGED loopVars
    /\ UNCHANGED guiVars

NextMatch ==
    \/ CallSearchSimple
    \/ CallSearchAllKeywords
    \/ CallSearchPhrase
    \/ CallCalculateRelevanceScore
    \/ CallGetPlainMatches

SpecMatch == InitMatch /\ [][NextMatch]_vars

(***************************************************************************)
(* SpecHighlight: highlight_matches as a pure function of a text and of    *)
(* keywords that occur in the text or in the escape sequences.             *)
(***************************************************************************)
InitHighlight ==
    /\ arg_text \in Texts
    /\ keywords \in HighlightKeywordLists
    /\ case_sensitive \in BOOLEAN
    /\ arg_comment = <<>>
    /\ call = "none"
    /\ ret = FALSE
    /\ corpus = <<>>
    /\ dir_exists = TRUE
    /\ RunIdle

\* highlight_matches is called in one of the modes, with or without colour;
\* in regex mode keywords[0] raises IndexError when there is no keyword
CallHighlightMatches ==
    /\ call = "none"
    /\ \E mode \in Modes, use_color \in BOOLEAN :
         /\ search_mode' = mode
         /\ IF use_color /\ mode = "regex" /\ first_keyword_raises(keywords)
            THEN /\ call' = "IndexError"
                 /\ UNCHANGED ret
            ELSE /\ call' = "highlight_matches"
                 /\ ret' = highlight_matches(arg_text, keywords, mode,
                                             case_sensitive, use_color)
    /\ UNCHANGED <<arg_text, keywords, case_sensitive, arg_comment>>
    /\ UNCHANGED <<corpus, min_likes, max_results, sort_by, username, method, pc,
                   file_idx, results, user_stats, printed, returned>>
    /\ UNCHANGED <<dir_exists, cli, exit_code, suggested, user_db>>
    /\ UNCHANGED showVars
    /\ UNCHANGED loopVars
    /\ UNCHANGED guiVars

NextHighlight == CallHighlightMatches

SpecHighlight == InitHighlight /\ [][NextHighlight]_vars

(***************************************************************************)
(* The claims.                                                             *)
(***************************************************************************)
\* a call of method m has returned in SpecMatch
Called(m) == call = m

\* C1: whenever the 'all' matcher accepts a text for a keyword list, the
\* empty list included, the 'any' matcher accepts it too.
C1_AllImpliesAny ==
    (Called("search_all_keywords") /\ ret)
        => search_simple(arg_text, keywords, case_sensitive)

\* C2: with an empty keyword list neither search_simple nor
\* search_all_keywords accepts any text.
C2_EmptyKeywordsNeverMatch ==
    ((Called("search_simple") \/ Called("search_all_keywords")) /\ keywords = <<>>)
        => ~ret

\* the results a running or finished method holds
Wrappers == Range(results) \cup Range(returned)

\* C3: in phrase mode with zero keywords search_comments matches no record.
C3_EmptyPhraseNeverMatches ==
    (method = "search_comments" /\ search_mode = "phrase" /\ keywords = <<>>)
        => Wrappers = {}

\* C4: in regex mode every record search_comments matches has a match of the
\* pattern in its text under the case rule of case_sensitive: without case
\* folding when it is true, ignoring case when it is false.
C4_RegexHonoursCaseSensitive ==
    (method = "search_comments" /\ search_mode = "regex")
        => \A r \in Wrappers :
              /\ re_valid(keywords[1])
              /\ re_search(keywords[1], r.comment.text, ~case_sensitive)

\* the comments of the directory whose text reaches the matcher of
\* search_comments: they have a text and enough likes
Scanned ==
    UNION {LET cs == load_comments_from_file(corpus[i]).comments
           IN {<<i, j>> : j \in {n \in 1..Len(cs) :
                   /\ Get(cs[n], "text", <<>>) # <<>>
                   /\ Get(cs[n], "like_count", 0) >= min_likes}}
           : i \in 1..Len(corpus)}

\* C5: a search_comments call in regex mode with a pattern re.compile
\* rejects, over a directory of readable files with records to scan, does
\* not raise, returns the empty list, and has printed the invalid-pattern
\* diagnostic exactly once.
C5_InvalidRegexReportedOnce ==
    (/\ method = "search_comments"
     /\ search_mode = "regex"
     /\ keywords # <<>>
     /\ ~re_valid(keywords[1])
     /\ pc \in {"returned", "raised"}
     /\ \A i \in 1..Len(corpus) : corpus[i].json = "object"
     /\ Scanned # {})
        => (pc = "returned" /\ returned = <<>> /\ printed.regex = 1)

\* C6: in a directory of several files, neither search_comments nor
\* get_all_users ever ends by an exception at a file that cannot be read or
\* parsed.
C6_BadFileNeverAborts ==
    (Len(corpus) >= 2 /\ pc = "raised" /\ file_idx < Len(corpus))
        => corpus[file_idx + 1].json # "invalid"

\* the comment list the two accepted shapes of a file stand for
CommentList(file) ==
    IF file.json = "array" THEN file.data
    ELSE IF file.json = "object" /\ "comments" \in DOMAIN file.data
            /\ file.data.comments.is_list
    THEN file.data.comments.items
    ELSE <<>>

\* the files the running method has given to load_comments_from_file
Loaded ==
    IF method = "none" THEN {}
    ELSE {i \in 1..Len(corpus) :
            i <= file_idx \/ (i = file_idx + 1 /\ pc = "raised")}

\* C7: for every file given to it, the loader returns the file's comment
\* list: the array itself when the JSON root is an array, the list under
\* "comments" when the root is an object, the empty list when that key is
\* absent or is no list.
C7_LoaderAcceptsBothShapes ==
    \A i \in Loaded :
        corpus[i].json # "invalid"
            => load_comments_from_file(corpus[i]).comments = CommentList(corpus[i])

\* the working copy the scorer compares on
Folded(s, cs) == IF cs THEN s ELSE [i \in 1..Len(s) |-> LowerChar(s[i])]

\* the indices at which k occurs in t
Occurrences(t, k) ==
    {p \in 0..(Len(t) - Len(k)) : \A j \in 1..Len(k) : t[p + j] = k[j]}

\* the greatest number of occurrences of k in t no two of which overlap
NonOverlapping(t, k) ==
    LET occ == Occurrences(t, k)
    IN IF k = <<>> THEN Cardinality(occ)
       ELSE LET apart == {S \in SUBSET occ :
                            \A p, q \in S : p < q => q - p >= Len(k)}
            IN CHOOSE n \in 0..Cardinality(occ) :
                  /\ \E S \in apart : Cardinality(S) = n
                  /\ \A S \in apart : Cardinality(S) <= n

\* the sum over the keywords of their non-overlapping occurrences
RECURSIVE TotalOccurrences(_, _, _)
TotalOccurrences(t, kws, cs) ==
    IF kws = <<>> THEN 0
    ELSE NonOverlapping(Folded(t, cs), Folded(Head(kws), cs))
         + TotalOccurrences(t, Tail(kws), cs)

\* some keyword occurs within the first n characters of t
OccursWithin(t, kws, cs, n) ==
    \E i \in 1..Len(kws) :
        \E p \in Occurrences(Folded(t, cs), Folded(kws[i], cs)) :
            p + Len(kws[i]) <= n

\* the score as the specification states it
ScoreFormula(c, kws, cs) ==
    10 * TotalOccurrences(c.text, kws, cs)
    + (IF OccursWithin(c.text, kws, cs, 50) THEN 5 ELSE 0)
    + (IF "like_count" \in DOMAIN c THEN (IF c.like_count <= 50 THEN c.like_count ELSE 50)
       ELSE 0)
    + (IF "author_is_uploader" \in DOMAIN c /\ c.author_is_uploader THEN 20 ELSE 0)
    + (IF "author_is_verified" \in DOMAIN c /\ c.author_is_verified THEN 10 ELSE 0)

\* like counts around the cap
LikeProbes == {0, 7, 49, 50, 51, 60}

\* the comment c with like_count set to n
WithLikes(c, n) ==
    [k \in DOMAIN c \cup {"like_count"} |-> IF k = "like_count" THEN n ELSE c[k]]

\* C8: calculate_relevance_score returns the stated sum; and with the other
\* inputs fixed, changing like_count from L to L2 changes the score by
\* L2 - L when both are at most 50 and by nothing when both are at least 50.
C8_ScoreFormula ==
    Called("calculate_relevance_score") =>
        /\ ret = ScoreFormula(arg_comment, keywords, case_sensitive)
        /\ Len(arg_comment.text) <= MaxTextLen =>
             \A L2 \in LikeProbes :
                LET L == Get(arg_comment, "like_count", 0)
                    s2 == calculate_relevance_score(WithLikes(arg_comment, L2),
                                                    keywords, case_sensitive)
                IN /\ (L <= 50 /\ L2 <= 50) => s2 - ret = L2 - L
                   /\ (L >= 50 /\ L2 >= 50) => s2 = ret

\* C8 witness: the scorer was given a text longer than 50 characters with a
\* keyword that occurs in it but not in its first 50 characters, a
\* like_count above the cap, and a badge.
C8_Witness ==
    /\ Called("calculate_relevance_score")
    /\ Len(arg_comment.text) > 50
    /\ TotalOccurrences(arg_comment.text, keywords, case_sensitive) >= 1
    /\ ~OccursWithin(arg_comment.text, keywords, case_sensitive, 50)
    /\ Get(arg_comment, "like_count", 0) > 50
    /\ Get(arg_comment, "author_is_verified", FALSE)
    /\ ret = 70

\* C9: every wrapper search_comments or extract_user_comments holds or
\* returns has a relevance_score of at least 0.
C9_ScoreNonNegative ==
    \A r \in Wrappers : r.relevance_score >= 0

\* C9 witness: search_comments returned a comment without likes or badges
\* that a pattern matched and in which no keyword was counted, so that its
\* score is 0, beside a comment with a positive score.
C9_Witness ==
    /\ pc = "returned"
    /\ method = "search_comments"
    /\ \E r \in Range(returned) : r.relevance_score = 0
    /\ \E r \in Range(returned) : r.relevance_score > 0

\* C10: every wrapper search_comments or extract_user_comments holds or
\* returns is of a comment whose like_count (0 when absent) is at least
\* min_likes.
C10_ResultsHaveMinLikes ==
    \A r \in Wrappers : Get(r.comment, "like_count", 0) >= min_likes

\* C10 witness: with min_likes = 10, a directory holding Bob's comments with
\* 3 and 7 likes, and a query that matches both, search_comments returned
\* another comment only.
C10_Witness ==
    /\ pc = "returned"
    /\ method = "search_comments"
    /\ min_likes = 10
    /\ search_mode = "any"
    /\ keywords = << <<"a">> >>
    /\ \E i \in 1..Len(corpus) :
          /\ corpus[i].json = "object"
          /\ "comments" \in DOMAIN corpus[i].data
          /\ corpus[i].data.comments.items = <<Comment1, Comment2>>
    /\ returned # <<>>
    /\ \A r \in Range(returned) : r.comment.like_count >= 10

\* search_comments has returned
SearchReturned == method = "search_comments" /\ pc = "returned"

\* the matches of the finished scan in the order sort_by asks for
SortedMatches == search_finish(results, sort_by, NoCap)

\* C11: when search_comments is given a cap N it returns exactly the first N
\* entries of the fully sorted match list (all of them when fewer than N
\* match), never more than N entries; when it is given no cap it returns
\* every match.
C11_CapReturnsFirstN ==
    SearchReturned =>
        IF max_results = NoCap
        THEN returned = SortedMatches
        ELSE /\ returned = Slice(SortedMatches, 0, max_results[1])
             /\ Len(returned) <= max_results[1]

\* the place of a result in the scan: its index in the list results
ScanPos(r) == CHOOSE i \in 1..Len(results) : results[i] = r

\* the key sort_by names
SortKey(r) ==
    IF sort_by = "relevance" THEN r.relevance_score
    ELSE Get(r.comment, "like_count", 0)

\* C12: with sort_by 'relevance' (respectively 'likes') the results
\* search_comments returns are in non-increasing relevance_score
\* (respectively like_count) order, and results of equal key are in their
\* scan order.
C12_SortedAndStable ==
    (SearchReturned /\ sort_by \in {"relevance", "likes"}) =>
        \A i, j \in 1..Len(returned) :
            (i < j) =>
                /\ SortKey(returned[i]) >= SortKey(returned[j])
                /\ (SortKey(returned[i]) = SortKey(returned[j]))
                      => (ScanPos(returned[i]) < ScanPos(returned[j]))

\* C12 witness: sorted by likes and not cut, search_comments returned three
\* results or more in another order than the scan found them, two of them
\* with the same like_count.
C12_Witness ==
    /\ SearchReturned
    /\ sort_by = "likes"
    /\ max_results = NoCap
    /\ Len(returned) >= 3
    /\ returned # results
    /\ \E i, j \in 1..Len(returned) :
          i < j /\ SortKey(returned[i]) = SortKey(returned[j])

\* C13: no wrapper that search_comments, or extract_user_comments called with
\* keywords, holds or returns is of a comment whose text is empty or absent.
C13_EmptyTextNeverReturned ==
    (\/ method = "search_comments"
     \/ (method = "extract_user_comments" /\ truthy(keywords)))
        => \A r \in Wrappers : Get(r.comment, "text", <<>>) # <<>>

\* C14: over a directory whose files all load, a search or a per-author
\* extraction with keywords never ends by an exception, whatever records the
\* files hold.
C14_MalformedRecordNeverAborts ==
    (/\ method \in {"search_comments", "extract_user_comments"}
     /\ keywords # <<>>
     /\ \A i \in 1..Len(corpus) : corpus[i].json = "object")
        => pc # "raised"

\* C15: the command-line tool never exits with status 0 when the search
\* directory does not exist, nor when a plain search is asked for without
\* keywords.
C15_CliExitsNonZero ==
    (/\ cli
     /\ pc = "exited"
     /\ (~dir_exists \/ (username = <<>> /\ keywords = <<>>)))
        => exit_code # 0

\* e occurs in t as it stands
IsSubstring(e, t) ==
    \E p \in 0..(Len(t) - Len(e)) : Slice(t, p, p + Len(e)) = e

\* what an element of the collection must equal under the case rule: the
\* literal of the pattern in regex mode, the joined phrase in phrase mode,
\* one of the keywords in the other modes
MatchedAgainst ==
    IF search_mode = "regex" THEN {re_literal(keywords[1])}
    ELSE IF search_mode = "phrase" THEN {join(keywords)}
    ELSE Range(keywords)

\* C16: the collection get_plain_matches returns holds no element twice, and
\* every element is a substring of the text in the text's own case that
\* equals the pattern, the phrase or a keyword under the case rule of
\* case_sensitive.
C16_PlainMatchesAreSubstrings ==
    Called("get_plain_matches") =>
        /\ \A i, j \in 1..Len(ret) : (i # j) => (ret[i] # ret[j])
        /\ \A i \in 1..Len(ret) :
              /\ IsSubstring(ret[i], arg_text)
              /\ \E k \in MatchedAgainst :
                    Folded(ret[i], case_sensitive) = Folded(k, case_sensitive)

\* C16 witness: case-insensitive get_plain_matches in mode any found the
\* keyword "a" three times in "aAa" and returned the two spellings, each
\* once.
C16_Witness ==
    /\ Called("get_plain_matches")
    /\ search_mode = "any"
    /\ ~case_sensitive
    /\ keywords = << <<"a">> >>
    /\ arg_text = <<"a", "A", "a">>
    /\ Range(ret) = {<<"a">>, <<"A">>}
    /\ Len(ret) = 2

\* the sum of the like counts of the comments attached to an author
RECURSIVE SumLikes(_)
SumLikes(cds) ==
    IF cds = <<>> THEN 0
    ELSE Get(Head(cds).full_comment, "like_count", 0) + SumLikes(Tail(cds))

\* C17: in the aggregate get_all_users builds, each author's count is the
\* number of comment entries attached to the author and total_likes is the
\* sum of their like counts.
C17_CountAndLikesMatchComments ==
    \A i \in 1..Len(user_stats) :
        /\ user_stats[i].count = Len(user_stats[i].comments)
        /\ user_stats[i].total_likes = SumLikes(user_stats[i].comments)

\* C17 witness: get_all_users has read every file of a directory with two
\* comments by Bob, of 3 and 7 likes, and holds count 2 and total_likes 10
\* for Bob.
C17_Witness ==
    /\ method = "extract_user_comments"
    /\ pc = "users"
    /\ file_idx = Len(corpus)
    /\ \E i \in 1..Len(user_stats) :
          /\ user_stats[i].author = Bob
          /\ user_stats[i].count = 2
          /\ user_stats[i].total_likes = 10
          /\ user_stats[i].comments[1].like_count = 3
          /\ user_stats[i].comments[2].like_count = 7

\* the author a comment is counted under
AuthorOf(c) == Get(c, "author", Unknown)

\* the comments of the first n files of the directory, as the loader of
\* comment_search.py returns them
RECURSIVE CommentsOfFiles(_)
CommentsOfFiles(n) ==
    IF n = 0 THEN <<>>
    ELSE CommentsOfFiles(n - 1) \o load_comments_from_file(corpus[n]).comments

\* the comments the running method has taken from the directory
Counted == CommentsOfFiles(file_idx)

\* some comment of cs by the author carries the flag
Carries(cs, author, flag) ==
    \E i \in 1..Len(cs) : AuthorOf(cs[i]) = author /\ Get(cs[i], flag, FALSE)

\* C18: an author's is_verified and is_uploader, in the aggregate of
\* get_all_users and in the database of build_user_database, are true
\* exactly when one of the author's comments carries the flag.
C18_FlagsTrueIffEverTrue ==
    /\ \A i \in 1..Len(user_stats) :
          /\ user_stats[i].is_verified
                = Carries(Counted, user_stats[i].author, "author_is_verified")
          /\ user_stats[i].is_uploader
                = Carries(Counted, user_stats[i].author, "author_is_uploader")
    /\ \A i \in 1..Len(user_db) :
          /\ user_db[i].is_verified
                = Carries(load_comments_from_directory(corpus), user_db[i].author,
                          "author_is_verified")
          /\ user_db[i].is_uploader
                = Carries(load_comments_from_directory(corpus), user_db[i].author,
                          "author_is_uploader")

\* extract_user_comments has returned
ExtractReturned == method = "extract_user_comments" /\ pc = "returned"

\* the comments of the directory by the author asked for that pass the like
\* filter
WantedOfUser ==
    SelectSeq(Counted, LAMBDA c : /\ AuthorOf(c) = username
                                  /\ Get(c, "like_count", 0) >= min_likes)

\* C19: extract_user_comments returns only comments whose author is the name
\* asked for, letter for letter; with keywords, only comments the matcher of
\* the mode accepts, in non-increasing relevance_score order; without
\* keywords, every comment of the author (that passes the like filter), in
\* non-increasing like_count order.
C19_ExtractUserComments ==
    ExtractReturned =>
        /\ \A r \in Range(returned) : AuthorOf(r.comment) = username
        /\ truthy(keywords) =>
              /\ \A r \in Range(returned) :
                    match_comment(Get(r.comment, "text", <<>>), Query)
              /\ \A i, j \in 1..Len(returned) :
                    (i < j) => (returned[i].relevance_score
                                   >= returned[j].relevance_score)
        /\ ~truthy(keywords) =>
              /\ Len(returned) = Len(WantedOfUser)
              /\ {r.comment : r \in Range(returned)} = Range(WantedOfUser)
              /\ \A i, j \in 1..Len(returned) :
                    (i < j) => (Get(returned[i].comment, "like_count", 0)
                                   >= Get(returned[j].comment, "like_count", 0))

\* C19 witness: asked for Bob with keywords, extract_user_comments returned
\* two of Bob's comments, the one of higher score first, over a directory
\* that also holds comments of another author the keywords match.
C19_Witness ==
    /\ ExtractReturned
    /\ username = Bob
    /\ truthy(keywords)
    /\ Len(returned) = 2
    /\ returned[1].relevance_score > returned[2].relevance_score
    /\ \E c \in Range(Counted) :
          /\ AuthorOf(c) # Bob
          /\ match_comment(Get(c, "text", <<>>), Query)

\* the authors of the directory
Authors == {AuthorOf(c) : c \in Range(Counted)}

\* the authors whose name contains the name asked for, ignoring case
Containing == {a \in Authors : IsSubstring(lower(username), lower(a))}

\* C20: for a name that is no author of the directory,
\* extract_user_comments returns the empty list and suggests at most 5
\* names, each the name of an author that contains the name asked for as a
\* case-insensitive substring.
C20_UnknownAuthorSuggestions ==
    (ExtractReturned /\ username \notin Authors) =>
        /\ returned = <<>>
        /\ Len(suggested) <= 5
        /\ \A i \in 1..Len(suggested) : suggested[i] \in Containing

\* C20 witness: asked for "b", which is no author while seven authors have a
\* "b" or "B" in their name, extract_user_comments returned nothing and
\* suggested five of them.
C20_Witness ==
    /\ ExtractReturned
    /\ username = <<"b">>
    /\ Cardinality(Containing) = 7
    /\ returned = <<>>
    /\ Len(suggested) = 5

Timestamp(r) == Get(r.comment, "timestamp", 0)

\* C23: with sort_by 'date' the results search_comments returns are in
\* non-increasing timestamp order, results of equal timestamp are in their
\* scan order, and no result whose timestamp is 0 or absent comes before a
\* result with a known timestamp.
C23_DateSortedAndStable ==
    (SearchReturned /\ sort_by = "date") =>
        \A i, j \in 1..Len(returned) :
            (i < j) =>
                /\ Timestamp(returned[i]) >= Timestamp(returned[j])
                /\ (Timestamp(returned[i]) = Timestamp(returned[j]))
                      => (ScanPos(returned[i]) < ScanPos(returned[j]))
                /\ (Timestamp(returned[i]) = 0) => (Timestamp(returned[j]) = 0)

\* C23 witness: sorted by date and not cut, search_comments returned two
\* results with different known timestamps and two without timestamp, in
\* another order than the scan found them.
C23_Witness ==
    /\ SearchReturned
    /\ sort_by = "date"
    /\ max_results = NoCap
    /\ returned # results
    /\ \E i, j, k, l \in 1..Len(returned) :
          /\ i < j /\ j < k /\ k < l
          /\ Timestamp(returned[i]) > Timestamp(returned[j])
          /\ Timestamp(returned[j]) > 0
          /\ Timestamp(returned[k]) = 0
          /\ Timestamp(returned[l]) = 0
          /\ "timestamp" \notin DOMAIN returned[k].comment

\* ---- C24 ----
\* show_most_active_users has returned
MostActiveReturned == method = "show_most_active_users" /\ pc = "returned"

\* every comment of the directory, as the loader returns them
AllComments == CommentsOfFiles(Len(corpus))

\* the number of comments of the directory by the author
CommentCount(author) ==
    Cardinality({i \in 1..Len(AllComments) : AuthorOf(AllComments[i]) = author})

\* the place of the author's first comment in the scan
FirstSeen(author) ==
    CHOOSE i \in 1..Len(AllComments) :
        /\ AuthorOf(AllComments[i]) = author
        /\ \A j \in 1..(i - 1) : AuthorOf(AllComments[j]) # author

\* author a ranks before author b
RanksBefore(a, b) ==
    \/ CommentCount(a) > CommentCount(b)
    \/ CommentCount(a) = CommentCount(b) /\ FirstSeen(a) < FirstSeen(b)

\* the authors show_most_active_users returned
Listed == {top_users[i].author : i \in 1..Len(top_users)}

\* C24: show_most_active_users(K) returns at most K entries, one per author,
\* each with the number of all comments of the directory by that author
\* (comments without text included), in non-increasing count with authors
\* of equal count in first-encountered order, and no author it leaves out
\* ranks before one it returns.
C24_MostActiveUsers ==
    MostActiveReturned =>
        /\ Len(top_users) = Min(limit, Cardinality({AuthorOf(AllComments[i]) :
                                                       i \in 1..Len(AllComments)}))
        /\ \A i \in 1..Len(top_users) :
              top_users[i].count = CommentCount(top_users[i].author)
        /\ \A i, j \in 1..Len(top_users) :
              (i < j) => RanksBefore(top_users[i].author, top_users[j].author)
        /\ \A i \in 1..Len(AllComments) :
              AuthorOf(AllComments[i]) \notin Listed =>
                  \A a \in Listed : RanksBefore(a, AuthorOf(AllComments[i]))

\* C24 witness: of more than three authors the first three are returned;
\* the first has two comments, one of them with an empty text, the next two
\* have one comment each.
C24_Witness ==
    /\ MostActiveReturned
    /\ limit = 3
    /\ Len(top_users) = 3
    /\ \E i \in 1..Len(AllComments) : AuthorOf(AllComments[i]) \notin Listed
    /\ top_users[1].count = 2
    /\ \E k \in 1..2 : top_users[1].comments[k].text = <<>>
    /\ top_users[2].count = 1
    /\ top_users[3].count = 1

\* ---- C25 ----
\* the records of the file of that name, as the loader returns them
RecordsOf(filename) ==
    UNION {Range(load_comments_from_file(corpus[n]).comments) :
             n \in {m \in 1..Len(corpus) : corpus[m].name = filename}}

\* the fields a result wrapper adds
WrapperFields == {"relevance_score", "matched_text", "source_file", "video_id"}

\* C25: after matching, scoring and span extraction the record in every
\* result wrapper, and in every entry of the user aggregate, is a record of
\* its source file with exactly the fields and values it was loaded with;
\* score and spans are fields of the wrapper and not of the record.
C25_RecordsUnchanged ==
    /\ \A r \in Wrappers \cup Range(rerun.returned) :
          /\ r.comment \in RecordsOf(r.source_file)
          /\ DOMAIN r.comment \cap WrapperFields = {}
          /\ {"relevance_score", "matched_text"} \subseteq DOMAIN r
    /\ \A i \in 1..Len(user_stats) :
          \A k \in 1..Len(user_stats[i].comments) :
              user_stats[i].comments[k].full_comment
                  \in RecordsOf(user_stats[i].comments[k].source_file)

\* C25 witness: the method returned the record with the text "A", matched
\* ignoring case by the keyword "a", scored and with its span "A".
C25_Witness ==
    /\ pc = "returned"
    /\ ~case_sensitive
    /\ keywords = <<<<"a">>>>
    /\ \E i \in 1..Len(returned) :
          /\ returned[i].comment = Comment2
          /\ returned[i].comment["text"] = <<"A">>
          /\ returned[i].relevance_score > 0
          /\ returned[i].matched_text = {<<"A">>}

\* ---- C27 ----
\* C27: every result search_comments returns for a non-empty keyword list
\* has a matched_text with at least one non-empty span.
C27_ResultsHaveSpans ==
    (SearchReturned /\ keywords # <<>>) =>
        \A i \in 1..Len(returned) :
            \E span \in returned[i].matched_text : span # <<>>

\* ---- C22 ----
\* the text holds an ANSI escape sequence
HasEscape(text) == \E i \in 1..Len(text) : text[i] = ESC

\* C22: when the command line gives --no-color, no comment text of the
\* listing display_results prints holds an ANSI escape sequence.
C22_NoColorListingIsPlain ==
    (cli /\ pc = "exited" /\ no_color) =>
        \A i \in 1..Len(listing) : ~HasEscape(listing[i])

\* ---- C28 ----
\* the text begins with the marker
StartsWith(text, marker) == Slice(text, 0, Len(marker)) = marker

RECURSIVE StripMarkers(_)
\* the text without its RED and RESET markers
StripMarkers(text) ==
    IF text = <<>> THEN <<>>
    ELSE IF StartsWith(text, RED) THEN StripMarkers(Slice(text, Len(RED), Len(text)))
    ELSE IF StartsWith(text, RESET) THEN StripMarkers(Slice(text, Len(RESET), Len(text)))
    ELSE <<Head(text)>> \o StripMarkers(Tail(text))

RECURSIVE Nests(_, _)
\* read from the left with depth regions open, the text opens a region
\* inside an open one or closes one that is not open
Nests(text, depth) ==
    IF text = <<>> THEN depth # 0
    ELSE IF StartsWith(text, RED)
    THEN depth >= 1 \/ Nests(Slice(text, Len(RED), Len(text)), depth + 1)
    ELSE IF StartsWith(text, RESET)
    THEN depth = 0 \/ Nests(Slice(text, Len(RESET), Len(text)), depth - 1)
    ELSE Nests(Tail(text), depth)

\* C28: in any and all mode the text highlight_matches returns is the
\* original text with RED ... RESET pairs around substrings: without the
\* markers it is the original text, and no highlighted region lies inside
\* another.
C28_HighlightOnlyWraps ==
    (Called("highlight_matches") /\ search_mode \in {"any", "all"}) =>
        /\ StripMarkers(ret) = arg_text
        /\ ~Nests(ret, 0)

\* ---- C26 ----
\* C26: the video id the searcher derives from the name of the file a
\* collector has written for a video is that video's id.
C26_DerivedIdIsVideoId ==
    Called("download_comments") => ret.derived = ret.video_id

\* ---- C29 ----
\* C29: every call of get_plain_matches in phrase, any or all mode, once
\* entered, returns, whatever the text and the keywords, the empty string
\* among them included.
C29_GetPlainMatchesTerminates == (pc # "idle") ~> (pc = "returned")

\* C29 witness: the find loop has returned for a text of some length and an
\* empty string to find, which it found once at every index from 0 to
\* len(text).
C29_Witness ==
    /\ method = "get_plain_matches"
    /\ pc = "returned"
    /\ case_sensitive
    /\ arg_text # <<>>
    /\ needles = <<<<>>>>
    /\ Len(matches) = Len(arg_text) + 1
    /\ ret = {<<>>}

\* ---- C30 ----
\* the workers whose command is running
CommandsRunning == {i \in 1..Len(threads) : threads[i].at = "popen"}

\* the workers that have been started and have not finished
InFlight == {i \in 1..Len(threads) : threads[i].at # "done"}

\* C30: at most one command runs at a time, and no worker is started while
\* another is in flight.
C30_AtMostOneCommand ==
    /\ Cardinality(CommandsRunning) <= 1
    /\ Cardinality(InFlight) <= 1

====
